---- MODULE Spec2Model ----
(***************************************************************************)
(* Retrieval-and-ranking pipeline of the recipe backend:                   *)
(*   scripts/ingestRecipes.ts       chunkText, runIngest and its flushes   *)
(*   src/utils/aggregate.ts         aggregateMatches (used by controllers) *)
(*   src/utils/clients.ts           ensureClients, aggregateMatches        *)
(*   controllers/searchController.ts postSearch                            *)
(*   controllers/matchController.ts postMatchByIngredients                 *)
(*                                                                         *)
(* A JavaScript string is a sequence of one-character strings, 0-based     *)
(* positions of the source are kept (position p is element p+1).           *)
(***************************************************************************)
EXTENDS Integers, Sequences, FiniteSets, TLC

(***************************************************************************)
(* Bounds of the model                                                     *)
(***************************************************************************)
MaxLen == 5
MaxSize == 3
MaxOverlap == 3
MaxMatches == 3
MaxTopK == 2
MaxCopies == 10
MaxReply == 2
MaxIndexed == 4
MaxSearchReply == 4
MaxRequests == 3

(***************************************************************************)
(* Generic helpers                                                         *)
(***************************************************************************)
Min(a, b) == IF a <= b THEN a ELSE b
Max(a, b) == IF a >= b THEN a ELSE b
SetMax(S) == CHOOSE x \in S : \A y \in S : y <= x
Range(s) == {s[i] : i \in 1..Len(s)}

SeqsUpTo(S, n) == UNION {[1..k -> S] : k \in 0..n}

(***************************************************************************)
(* JavaScript string primitives                                            *)
(***************************************************************************)
Whitespace == {" ", "\t", "\n"}

\* String.prototype.slice(a, b) for 0 <= a, 0 <= b
Slice(s, a, b) == SubSeq(s, a + 1, Min(b, Len(s)))

\* String.prototype.lastIndexOf(c, pos): the last position <= pos holding c, or -1
LastIndexOf(s, c, pos) ==
    LET hits == {i \in 0..Min(pos, Len(s) - 1) : s[i + 1] = c}
    IN  IF hits = {} THEN -1 ELSE SetMax(hits)

RECURSIVE TrimStart(_)
TrimStart(s) ==
    IF s = <<>> THEN <<>>
    ELSE IF Head(s) \in Whitespace THEN TrimStart(Tail(s)) ELSE s

RECURSIVE TrimEnd(_)
TrimEnd(s) ==
    IF s = <<>> THEN <<>>
    ELSE IF s[Len(s)] \in Whitespace THEN TrimEnd(SubSeq(s, 1, Len(s) - 1)) ELSE s

\* String.prototype.trim()
Trim(s) == TrimEnd(TrimStart(s))

VARIABLES
    text,       \* chunkText: the text being chunked
    size,       \* chunkText: window size
    overlap,    \* chunkText: overlap
    start,      \* chunkText: window start
    out,        \* chunkText: chunks pushed so far
    wins,       \* history: the window <<start, end>> each pushed chunk was cut from
    starts,     \* history: the window starts the loop has used
    cpc,        \* chunkText: "loop" inside the while loop, "done" after return
    matches,    \* aggregateMatches: the chunk matches passed in, in arrival order
    topKParents,\* aggregateMatches: the second argument
    results,    \* aggregateMatches: the ParentResult list returned
    apc,        \* aggregateMatches: "call" before, then the module that answered
    searchBody,     \* postSearch: req.body, its query and topK
    searchTopK,     \* postSearch: topK
    searchRequests, \* history: the topK of the query requests sent to the vector index
    searchMatches,  \* postSearch: reply.matches
    searchResponse, \* postSearch: the response sent
    spc,            \* postSearch: where the request stands
    bodyIngredients, \* postMatchByIngredients: req.body.ingredients
    cacheExists,    \* whether ingest-cache/full_recipes.json exists
    full,           \* the entries of full_recipes.json, in Object.entries order
    exactMatches,   \* postMatchByIngredients: the sorted exact-tier list, once built
    reply,          \* postMatchByIngredients: reply.matches of the vector index
    response,       \* postMatchByIngredients: the response sent
    embedCalls,     \* calls of embeddingsClient.embedDocuments made by the request
    queryCalls,     \* calls of pineconeIndex.query made by the request
    embeddingsClient, \* clients.ts: the lazily built embedding client
    pineconeClient,   \* clients.ts: the lazily built vector index client
    mpc,            \* postMatchByIngredients: where the request stands
    clientsIndex,   \* clients.ts: pineconeIndex, the index handle of the built client
    clientsEnv,     \* clients.ts: what the environment of the process lacks, if anything
    constructed,    \* history: the client instances constructed, in order
    ensureAt,       \* per request: "before", "awaiting" or "after" its await ensureClients()
    ensureResult,   \* per request: what its ensureClients() call resolved to, or "threw"
    rows,           \* ingestRecipes.ts: the parsed rows of the CSV file
    checkpoint,     \* checkpoint.lastProcessedRow, in memory
    checkpointFile, \* ingest-cache/checkpoint.json: lastProcessedRow, once written
    fullRecipes,    \* fullRecipes in memory, in key order
    fullRecipesFile,\* ingest-cache/full_recipes.json, once written
    loaded,         \* history: checkpoint.lastProcessedRow as loaded at the start of the run
    idx,            \* runIngest: the row index of the for loop
    cix,            \* runIngest: the chunk index ci of the inner loop
    embedBatchTexts,\* runIngest: composed texts waiting to be embedded
    embedBatchMeta, \* runIngest: their ids and metadata, position by position
    upsertBuffer,   \* runIngest: vectors waiting to be upserted
    nonEmptyMeta,   \* flushEmbedBatchAndUpsert: metadata of the texts sent
    vectors,        \* flushEmbedBatchAndUpsert: the embedding result
    pushAt,         \* flushEmbedBatchAndUpsert: i of the push loop
    sliceAt,        \* flushUpsertBuffer: i of the slice loop
    pineconeIndex,  \* the vectors the index namespace holds
    failedFiles,    \* ingest-cache/failed_upsert_<time>.json files
    now,            \* Date.now()
    embedRequests,  \* history: the text lists sent to embedDocuments and what came back
    upsertRequests, \* history: the slices sent to upsert
    embedReturn,    \* where flushEmbedBatchAndUpsert was called from
    upsertReturn,   \* where flushUpsertBuffer was called from
    builtChunks,    \* history: the chunk records this run built, with their row index
    sampleRequests, \* history: the text lists sampleEmbeddingCheck sent to embedDocuments
    faults,         \* how many embedding and upsert calls have failed, over all runs
    restarts,       \* how many times the script was killed and started again
    ipc             \* runIngest: where the script stands

chunkVars == <<text, size, overlap, start, out, wins, starts, cpc>>
searchVars == <<searchBody, searchTopK, searchRequests, searchMatches, searchResponse, spc>>
aggVars == <<matches, topKParents, results, apc, searchVars>>
clientVars == <<clientsIndex, clientsEnv, constructed, ensureAt, ensureResult>>
matchVars == <<bodyIngredients, cacheExists, full, exactMatches, reply, response, embedCalls,
               queryCalls, embeddingsClient, pineconeClient, mpc, clientVars>>
ingestVars == <<rows, checkpoint, checkpointFile, fullRecipes, fullRecipesFile, loaded, idx, cix,
                embedBatchTexts, embedBatchMeta, upsertBuffer, nonEmptyMeta, vectors, pushAt,
                sliceAt, pineconeIndex, failedFiles, now, embedRequests, upsertRequests,
                embedReturn, upsertReturn, builtChunks, sampleRequests, faults, restarts, ipc>>
vars == <<chunkVars, aggVars, matchVars, ingestVars>>

\* an optional value (undefined / null, or a value)
None == <<>>
Some(x) == <<x>>
IsSome(o) == o # <<>>
Val(o) == o[1]

\* a stable sort (Array.prototype.sort) of s by ascending Key
RECURSIVE InsertAsc(_, _)
InsertAsc(s, x) ==
    IF s = <<>> THEN <<x>>
    ELSE IF x[1] < Head(s)[1] THEN <<x>> \o s
         ELSE <<Head(s)>> \o InsertAsc(Tail(s), x)

RECURSIVE SortPairs(_)
SortPairs(s) ==
    IF s = <<>> THEN <<>>
    ELSE InsertAsc(SortPairs(SubSeq(s, 1, Len(s) - 1)), s[Len(s)])

StableSortAsc(s, Key(_)) ==
    LET sorted == SortPairs([i \in 1..Len(s) |-> <<Key(s[i]), s[i]>>])
    IN  [i \in 1..Len(s) |-> sorted[i][2]]

\* Array.prototype.join(sep) of a list of strings
RECURSIVE Join(_, _)
Join(strs, sep) ==
    IF strs = <<>> THEN <<>>
    ELSE IF Len(strs) = 1 THEN strs[1]
         ELSE strs[1] \o sep \o Join(Tail(strs), sep)

\* Array.prototype.slice(0, k) for k >= 0
Take(s, k) == SubSeq(s, 1, Min(k, Len(s)))

(***************************************************************************)
(* chunkText (scripts/ingestRecipes.ts:43-63)                              *)
(***************************************************************************)
ChunkAlphabet == {"a", "b", " ", "\n"}

\* lines 49-54: the right edge of the window that starts at st
WindowEnd(t, sz, st) ==
    LET n == Len(t)
        end0 == Min(n, st + sz)
        lastSpace == LastIndexOf(t, " ", end0)
    IN  IF end0 < n /\ lastSpace > st THEN lastSpace ELSE end0

\* a slip of sign in line 57: start = end + overlap
NextStartForward(end, ov) == Max(0, end + ov)

\* lines 57-58: the next window start
NextStart(end, ov) == Max(0, end - ov)

\* line 60 and the loop condition of line 48: the loop is left after this window
LoopLeft(t, end, ov) == end = Len(t) \/ ~(NextStart(end, ov) < Len(t))

ChunkIdle ==
    /\ text = <<>> /\ size = 1 /\ overlap = 0 /\ start = 0
    /\ out = <<>> /\ wins = <<>> /\ starts = {} /\ cpc = "idle"

SearchIdle ==
    /\ searchBody = None /\ searchTopK = None /\ searchRequests = <<>>
    /\ searchMatches = <<>> /\ searchResponse = None /\ spc = "idle"

AggregateIdle ==
    /\ matches = <<>> /\ topKParents = 0 /\ results = <<>> /\ apc = "idle"

AggIdle == AggregateIdle /\ SearchIdle

ClientsIdle ==
    /\ clientsIndex = None /\ clientsEnv = "ok" /\ constructed = <<>>
    /\ ensureAt = <<>> /\ ensureResult = <<>>

RequestIdle ==
    /\ bodyIngredients = <<>> /\ cacheExists = FALSE /\ full = <<>> /\ exactMatches = None
    /\ reply = None /\ response = None /\ embedCalls = 0 /\ queryCalls = 0
    /\ mpc = "idle"

MatchIdle ==
    /\ RequestIdle
    /\ embeddingsClient = None /\ pineconeClient = None
    /\ ClientsIdle

IngestIdle ==
    /\ rows = <<>> /\ checkpoint = -1 /\ checkpointFile = None /\ fullRecipes = <<>>
    /\ fullRecipesFile = None /\ loaded = -1 /\ idx = 0 /\ cix = 0
    /\ embedBatchTexts = <<>> /\ embedBatchMeta = <<>> /\ upsertBuffer = <<>>
    /\ nonEmptyMeta = <<>> /\ vectors = <<>> /\ pushAt = 0 /\ sliceAt = 0
    /\ pineconeIndex = {} /\ failedFiles = {} /\ now = 0
    /\ embedRequests = <<>> /\ upsertRequests = <<>>
    /\ embedReturn = "none" /\ upsertReturn = "none" /\ builtChunks = <<>>
    /\ sampleRequests = <<>> /\ faults = 0 /\ restarts = 0 /\ ipc = "idle"

InitChunk ==
    /\ AggIdle
    /\ MatchIdle
    /\ IngestIdle
    /\ text \in SeqsUpTo(ChunkAlphabet, MaxLen)
    /\ size \in 1..MaxSize
    /\ overlap \in 0..MaxOverlap
    /\ start = 0
    /\ out = <<>>
    /\ wins = <<>>
    /\ starts = {}
    /\ cpc = IF text = <<>> THEN "done" ELSE "loop"

\* One iteration of the while loop (lines 48-61).  A window start that comes
\* back once comes back forever, the iteration being a function of start; out
\* is recorded up to MaxLen chunks, more than any returning run pushes.
ChunkStep ==
    /\ cpc = "loop"
    /\ LET end == WindowEnd(text, size, start)
           chunk == Trim(Slice(text, start, end))
           room == Len(out) < MaxLen
       IN  /\ out' = IF chunk # <<>> /\ room THEN Append(out, chunk) ELSE out
           /\ wins' = IF chunk # <<>> /\ room THEN Append(wins, <<start, end>>) ELSE wins
           /\ starts' = starts \cup {start}
           /\ start' = NextStart(end, overlap)
           /\ cpc' = IF LoopLeft(text, end, overlap) THEN "done" ELSE "loop"
    /\ UNCHANGED <<text, size, overlap, aggVars, matchVars, ingestVars>>

NextChunk == ChunkStep

SpecChunk == InitChunk /\ [][NextChunk]_vars

(***************************************************************************)
(* Claims about chunkText                                                  *)
(***************************************************************************)
\* C1: chunkText terminates for every text, size >= 1 and overlap >= 0: the
\* loop never comes back to a window start it has used.  (An iteration is a
\* function of the window start and the starts lie in 0..length-1, so the loop
\* returns exactly when no start is used twice.)
C1_ChunkTextTerminates == cpc = "loop" => start \notin starts

\* the characters of s that are not whitespace, in order
RECURSIVE NonWs(_)
NonWs(s) ==
    IF s = <<>> THEN <<>>
    ELSE IF Head(s) \in Whitespace THEN NonWs(Tail(s))
         ELSE <<Head(s)>> \o NonWs(Tail(s))

\* the right edge reached by the windows before window i
EndBefore(i) == IF i = 1 THEN 0 ELSE SetMax({wins[j][2] : j \in 1..(i - 1)})

\* chunk i without the part of its window that earlier windows already gave
FreshPart(i) ==
    LET seen == Len(NonWs(Slice(text, wins[i][1], Min(EndBefore(i), wins[i][2]))))
        body == NonWs(out[i])
    IN  SubSeq(body, seen + 1, Len(body))

RECURSIVE ConcatFresh(_)
ConcatFresh(i) == IF i = 0 THEN <<>> ELSE ConcatFresh(i - 1) \o FreshPart(i)

\* C7: for size > overlap >= 0 the chunks chunkText returns cover the text:
\* every non-whitespace position lies in the window of a returned chunk, the
\* windows are taken in increasing order, and the chunks without their
\* overlapped prefixes concatenate to the text's non-whitespace content.
C7_ChunksCoverText ==
    (cpc = "done" /\ size > overlap) =>
        /\ \A p \in 0..(Len(text) - 1) :
              text[p + 1] \notin Whitespace =>
                  \E i \in 1..Len(wins) : wins[i][1] <= p /\ p < wins[i][2]
        /\ \A i \in 1..(Len(wins) - 1) :
              wins[i][1] < wins[i + 1][1] /\ wins[i][2] < wins[i + 1][2]
        /\ Len(out) = Len(wins)
        /\ ConcatFresh(Len(out)) = NonWs(text)

\* a returned run with size > overlap > 0, two chunks or more, and a window
\* that was cut back to a space
C7_Witness ==
    /\ cpc = "done" /\ size > overlap /\ overlap > 0
    /\ Len(out) >= 2
    /\ \E i \in 1..Len(wins) : wins[i][2] < Min(Len(text), wins[i][1] + size)

(***************************************************************************)
(* aggregateMatches (src/utils/aggregate.ts, src/utils/clients.ts)         *)
(*                                                                         *)
(* A chunk score is a whole number of twentieths (20 is similarity 1.0);   *)
(* an aggregate score is kept in tenths of that unit, so that              *)
(* max + 0.1 * sum is the integer 10 * max + sum.                          *)
(***************************************************************************)
SNIPPET_TEXT_LEN == 160
SNIPPET_LEN == 300

\* a string is truthy when it is there and not empty
Truthy(o) == IsSome(o) /\ Val(o) # <<>>

\* {} : a metadata object with no field set
EmptyMeta ==
    [parentId |-> None, parent_id |-> None, parent |-> None, recipeId |-> None,
     chunkIndex |-> None, instructions |-> None, title |-> None,
     snippet |-> None, text |-> None]

\* const meta = m.metadata || {}
MetaOf(m) == IF IsSome(m.metadata) THEN Val(m.metadata) ELSE EmptyMeta

\* the fallback fields tried in another order: parent_id before parentId
ParentKeySwapped(meta) ==
    IF IsSome(meta.parent_id) THEN Val(meta.parent_id)
    ELSE IF IsSome(meta.parentId) THEN Val(meta.parentId)
    ELSE IF IsSome(meta.parent) THEN Val(meta.parent)
    ELSE "unknown"

\* meta.parentId || meta.parent_id || meta.parent || "unknown"
ParentKey(meta) ==
    IF IsSome(meta.parentId) THEN Val(meta.parentId)
    ELSE IF IsSome(meta.parent_id) THEN Val(meta.parent_id)
    ELSE IF IsSome(meta.parent) THEN Val(meta.parent)
    ELSE "unknown"

\* { id: m.id, score: m.score ?? 0, metadata: meta }
Entry(m) ==
    [id |-> m.id,
     score |-> IF IsSome(m.score) THEN Val(m.score) ELSE 0,
     metadata |-> MetaOf(m)]

\* the Map grouped, as the list of its entries in insertion order
RECURSIVE Grouped(_)
Grouped(ms) ==
    IF ms = <<>> THEN <<>>
    ELSE LET g == Grouped(SubSeq(ms, 1, Len(ms) - 1))
             m == ms[Len(ms)]
             k == ParentKey(MetaOf(m))
         IN  IF \E i \in 1..Len(g) : g[i].key = k
             THEN [i \in 1..Len(g) |->
                      IF g[i].key = k
                      THEN [key |-> k, hits |-> Append(g[i].hits, Entry(m))]
                      ELSE g[i]]
             ELSE Append(g, [key |-> k, hits |-> <<Entry(m)>>])

\* hits.sort((a, b) => (b.score ?? 0) - (a.score ?? 0))
SortHits(hits) == StableSortAsc(hits, LAMBDA h : 0 - h.score)

RECURSIVE SumScore(_)
SumScore(hits) == IF hits = <<>> THEN 0 ELSE Head(hits).score + SumScore(Tail(hits))

\* the top hit taken from the wrong end of the sorted list
AggScoreOfLast(sorted) == 10 * sorted[Len(sorted)].score + SumScore(sorted)

\* maxScore + 0.1 * sumScore of the sorted hits, in tenths
AggScore(sorted) == 10 * sorted[1].score + SumScore(sorted)

\* the snippet of the top hit's metadata, undefined when it is empty
SnippetOf(firstMeta) ==
    LET head == IF Truthy(firstMeta.title)
                THEN Val(firstMeta.title) \o <<" ", "-", " ">> ELSE <<>>
        body == IF Truthy(firstMeta.snippet) THEN Val(firstMeta.snippet)
                ELSE IF IsSome(firstMeta.text)
                     THEN Slice(Val(firstMeta.text), 0, SNIPPET_TEXT_LEN)
                     ELSE <<>>
        snippet == head \o body
    IN  IF snippet # <<>> THEN Some(Slice(snippet, 0, SNIPPET_LEN)) ELSE None

\* the sort by chunk index left out: the instructions follow the score order
CombinedInstructionsUnsorted(sorted) ==
    LET have == SelectSeq(sorted, LAMBDA h : Truthy(h.metadata.instructions))
        instructionChunks == [i \in 1..Len(have) |-> Val(have[i].metadata.instructions)]
        joined == Trim(Join(instructionChunks, <<" ">>))
    IN  IF Len(instructionChunks) > 0 /\ joined # <<>> THEN Some(joined) ELSE None

\* clients.ts: the instructions of the matched chunks, by chunk index
CombinedInstructions(sorted) ==
    LET have == SelectSeq(sorted, LAMBDA h : Truthy(h.metadata.instructions))
        byIndex == StableSortAsc(have,
                       LAMBDA h : IF IsSome(h.metadata.chunkIndex)
                                  THEN Val(h.metadata.chunkIndex) ELSE 0)
        instructionChunks == [i \in 1..Len(byIndex) |-> Val(byIndex[i].metadata.instructions)]
        joined == Trim(Join(instructionChunks, <<" ">>))
    IN  IF Len(instructionChunks) > 0 /\ joined # <<>> THEN Some(joined) ELSE None

\* aggregate.ts: the ParentResult of one group
ParentResult(g) ==
    LET hits == SortHits(g.hits)
        firstMeta == hits[1].metadata
    IN  [parentId |-> g.key,
         score |-> AggScore(hits),
         title |-> firstMeta.title,
         snippet |-> SnippetOf(firstMeta),
         matchedChunks |-> hits,
         metadata |-> firstMeta]

\* clients.ts: the ParentResult of one group
ClientsParentResult(g) ==
    LET hits == SortHits(g.hits)
        firstMeta == hits[1].metadata
    IN  [parentId |-> g.key,
         recipeId |-> firstMeta.recipeId,
         score |-> AggScore(hits),
         title |-> firstMeta.title,
         snippet |-> SnippetOf(firstMeta),
         instructions |-> CombinedInstructions(hits),
         matchedChunks |-> hits,
         metadata |-> firstMeta]

\* results.sort((a, b) => b.score - a.score); results.slice(0, topKParents)
RankAndCut(rs, topK) == Take(StableSortAsc(rs, LAMBDA r : 0 - r.score), topK)

\* src/utils/aggregate.ts
aggregateMatches(ms, topK) ==
    LET g == Grouped(ms)
    IN  RankAndCut([i \in 1..Len(g) |-> ParentResult(g[i])], topK)

\* src/utils/clients.ts
clientsAggregateMatches(ms, topK) ==
    LET g == Grouped(ms)
    IN  RankAndCut([i \in 1..Len(g) |-> ClientsParentResult(g[i])], topK)

\* `${parentId}#c${ci}` (scripts/ingestRecipes.ts:273)
ChunkId(parentId, ci) == <<parentId, "#c", ci>>

\* the chunk matches a vector index can answer with, without their scores
Chunk(id, pid, pid2, par, ci, instr, title) ==
    [id |-> id,
     metadata |-> Some([parentId |-> pid, parent_id |-> pid2, parent |-> par,
                        recipeId |-> None, chunkIndex |-> ci, instructions |-> instr,
                        title |-> title, snippet |-> None, text |-> instr])]

MatchShapes ==
    { Chunk(ChunkId("p1", 0), Some("p1"), Some("p2"), None, Some(0), Some(<<"x">>), Some(<<"T">>)),
      Chunk(ChunkId("p1", 1), None, Some("p1"), Some("p2"), Some(1), Some(<<"y", " ">>), Some(<<"T">>)),
      Chunk(ChunkId("p1", 2), None, None, Some("p1"), Some(2), Some(<<"z">>), None),
      Chunk(ChunkId("p2", 0), Some("p2"), None, None, None, None, Some(<<"U">>)),
      Chunk(ChunkId("q", 0), None, None, None, Some(0), Some(<<"v">>), None),
      [id |-> ChunkId("r", 0), metadata |-> None] }

\* null (no score), 0.95 and 1.0
ScoreChoices == {None, Some(19), Some(20)}

WithScore(shape, sc) == [id |-> shape.id, score |-> sc, metadata |-> shape.metadata]

\* lists of at most MaxMatches matches with distinct ids, in any order, any scores
MatchLists ==
    { ms \in SeqsUpTo({WithScore(sh, sc) : sh \in MatchShapes, sc \in ScoreChoices},
                      MaxMatches) :
        \A i, j \in 1..Len(ms) : i # j => ms[i].id # ms[j].id }

InitAgg ==
    /\ ChunkIdle
    /\ MatchIdle
    /\ IngestIdle
    /\ SearchIdle
    /\ matches \in MatchLists
    /\ topKParents \in 0..MaxTopK
    /\ results = <<>>
    /\ apc = "call"

\* a caller of "../utils/aggregate.js"
AggregateCall ==
    /\ apc = "call"
    /\ results' = aggregateMatches(matches, topKParents)
    /\ apc' = "aggregate"
    /\ UNCHANGED <<matches, topKParents, searchVars, chunkVars, matchVars, ingestVars>>

\* a caller of aggregateMatches of "../utils/clients.js"
ClientsAggregateCall ==
    /\ apc = "call"
    /\ results' = clientsAggregateMatches(matches, topKParents)
    /\ apc' = "clients"
    /\ UNCHANGED <<matches, topKParents, searchVars, chunkVars, matchVars, ingestVars>>

NextAgg == AggregateCall \/ ClientsAggregateCall

SpecAgg == InitAgg /\ [][NextAgg]_vars

(***************************************************************************)
(* postSearch (src/controllers/searchController.ts)                        *)
(***************************************************************************)
\* a JavaScript number: an integer or NaN
NaN == [nan |-> TRUE, n |-> 0]
Num(k) == [nan |-> FALSE, n |-> k]

\* Math.min and Math.max of two numbers: NaN if either is NaN
MathMin(a, b) == IF a.nan \/ b.nan THEN NaN ELSE Num(Min(a.n, b.n))
MathMax(a, b) == IF a.nan \/ b.nan THEN NaN ELSE Num(IF a.n >= b.n THEN a.n ELSE b.n)
Times(a, k) == IF a.nan THEN NaN ELSE Num(a.n * k)

\* what req.body.topK can be: absent, a number, or a string
Absent == [kind |-> "absent", n |-> 0, s |-> <<>>]
JsonNumber(k) == [kind |-> "number", n |-> k, s |-> <<>>]
JsonString(str) == [kind |-> "string", n |-> 0, s |-> str]

\* x || 10: undefined, 0 and "" are falsy
OrTen(x) ==
    IF x.kind = "absent" \/ (x.kind = "number" /\ x.n = 0) \/ (x.kind = "string" /\ x.s = <<>>)
    THEN JsonNumber(10) ELSE x

DecimalDigits == <<"0", "1", "2", "3", "4", "5", "6", "7", "8", "9">>
DigitOf(c) == (CHOOSE d \in 1..10 : DecimalDigits[d] = c) - 1

\* Number(x) of a number or of a string of one character
NumberOf(x) ==
    IF x.kind = "number" THEN Num(x.n)
    ELSE IF Len(x.s) = 1 /\ x.s[1] \in Range(DecimalDigits) THEN Num(DigitOf(x.s[1]))
    ELSE IF Trim(x.s) = <<>> THEN Num(0)
    ELSE NaN

\* line 473: Math.min(Number(body.topK || 10), 10)
EffectiveTopK(bodyTopK) == MathMin(NumberOf(OrTen(bodyTopK)), Num(10))

\* lines 496-497: Math.max(topK * CHUNK_FACTOR, topK * 2)
CHUNK_FACTOR == 3
QueryTopK(topK) == MathMax(Times(topK, CHUNK_FACTOR), Times(topK, 2))

\* Array.prototype.slice(0, end): NaN counts as 0, a negative end counts
\* from the end of the array
SliceTo(s, end) ==
    LET e == IF end.nan THEN 0
             ELSE IF end.n < 0 THEN (IF Len(s) + end.n > 0 THEN Len(s) + end.n ELSE 0)
             ELSE Min(end.n, Len(s))
    IN  SubSeq(s, 1, e)

\* aggregateMatches(matches, topK) as postSearch calls it: the ranked parents
\* (aggregate.ts lines 1-59), then results.slice(0, topKParents) (line 60)
SearchParents(ms, topK) == SliceTo(aggregateMatches(ms, Len(ms)), topK)

\* the values of req.body.topK a caller sends
BodyTopKs ==
    {Absent, JsonString(<<>>), JsonString(<<"a">>), JsonString(<<"2">>)}
        \cup {JsonNumber(k) : k \in {0 - 2, 0 - 1, 0, 1, 2, 3, 10, 11, 12}}

\* the chunks the vector index holds for the query, best first
SearchIndexed ==
    << WithScore(Chunk(ChunkId("p1", 0), Some("p1"), None, None, Some(0), Some(<<"x">>), Some(<<"T">>)), Some(20)),
       WithScore(Chunk(ChunkId("p2", 0), Some("p2"), None, None, Some(0), Some(<<"y">>), Some(<<"U">>)), Some(19)),
       WithScore(Chunk(ChunkId("p3", 0), Some("p3"), None, None, Some(0), Some(<<"z">>), Some(<<"V">>)), Some(19)),
       WithScore(Chunk(ChunkId("p1", 1), Some("p1"), None, None, Some(1), Some(<<"w">>), Some(<<"T">>)), Some(18)) >>

\* what query({topK}) resolves to: the best chunks, at most topK of them when
\* topK is a count; the answer to a topK that is no count is not the
\* repository's to say
SearchReplies(queryTopK) ==
    IF ~queryTopK.nan /\ queryTopK.n >= 1
    THEN {Take(SearchIndexed, n) : n \in 0..Min(queryTopK.n, MaxSearchReply)}
    ELSE {Take(SearchIndexed, n) : n \in 0..MaxSearchReply}

InitSearch ==
    /\ ChunkIdle
    /\ AggregateIdle
    /\ MatchIdle
    /\ IngestIdle
    /\ searchBody \in {Some([query |-> q, topK |-> k]) : q \in {<<>>, <<" ">>, <<"q">>}, k \in BodyTopKs}
    /\ searchTopK = None
    /\ searchRequests = <<>>
    /\ searchMatches = <<>>
    /\ searchResponse = None
    /\ spc = "parse"

\* lines 465-474: a blank query is answered with 400, otherwise topK is set
SearchParse ==
    /\ spc = "parse"
    /\ IF Trim(Val(searchBody).query) = <<>>
       THEN /\ searchResponse' = Some([status |-> 400, results |-> <<>>])
            /\ spc' = "done"
            /\ UNCHANGED searchTopK
       ELSE /\ searchTopK' = Some(EffectiveTopK(Val(searchBody).topK))
            /\ spc' = "embed"
            /\ UNCHANGED searchResponse
    /\ UNCHANGED <<searchBody, searchRequests, searchMatches, matches, topKParents, results, apc,
                   chunkVars, matchVars, ingestVars>>

\* lines 482-494: the clients are there and the query is embedded, or the
\* request ends with 500 (no client, no vector, or an exception, line 534)
SearchEmbed ==
    /\ spc = "embed"
    /\ \E ok \in BOOLEAN :
          IF ok
          THEN spc' = "query" /\ UNCHANGED searchResponse
          ELSE /\ searchResponse' = Some([status |-> 500, results |-> <<>>])
               /\ spc' = "done"
    /\ UNCHANGED <<searchBody, searchTopK, searchRequests, searchMatches, matches, topKParents,
                   results, apc, chunkVars, matchVars, ingestVars>>

\* lines 496-512: the index is queried for queryTopK chunks and answers
SearchQuery ==
    /\ spc = "query"
    /\ searchRequests' = Append(searchRequests, QueryTopK(Val(searchTopK)))
    /\ \E ms \in SearchReplies(QueryTopK(Val(searchTopK))) :
          searchMatches' = ms
    /\ spc' = "aggregate"
    /\ UNCHANGED <<searchBody, searchTopK, searchResponse, matches, topKParents, results, apc,
                   chunkVars, matchVars, ingestVars>>

\* lines 509-538: the query rejects and the catch answers 500
SearchQueryThrows ==
    /\ spc = "query"
    /\ searchRequests' = Append(searchRequests, QueryTopK(Val(searchTopK)))
    /\ searchResponse' = Some([status |-> 500, results |-> <<>>])
    /\ spc' = "done"
    /\ UNCHANGED <<searchBody, searchTopK, searchMatches, matches, topKParents, results, apc,
                   chunkVars, matchVars, ingestVars>>

\* lines 514-533: the parents are aggregated and returned
SearchRespond ==
    /\ spc = "aggregate"
    /\ searchResponse' = Some([status |-> 200,
                               results |-> SearchParents(searchMatches, Val(searchTopK))])
    /\ spc' = "done"
    /\ UNCHANGED <<searchBody, searchTopK, searchRequests, searchMatches, matches, topKParents,
                   results, apc, chunkVars, matchVars, ingestVars>>

NextSearch == SearchParse \/ SearchEmbed \/ SearchQuery \/ SearchQueryThrows \/ SearchRespond

SpecSearch == InitSearch /\ [][NextSearch]_vars

(***************************************************************************)
(* Claims about postSearch                                                 *)
(***************************************************************************)
\* C22: postSearch clamps topK: whatever topK the caller sends (absent, zero,
\* negative, non-numeric, larger than 10), the effective topK is a number of
\* at most 10, the vector index is queried for topK * 3 chunks, and the
\* response holds at most topK, hence at most 10, parents.
C22_TopKClamped ==
    /\ IsSome(searchTopK) => (~Val(searchTopK).nan /\ Val(searchTopK).n <= 10)
    /\ \A i \in 1..Len(searchRequests) : searchRequests[i] = Times(Val(searchTopK), 3)
    /\ (IsSome(searchResponse) /\ Val(searchResponse).status = 200) =>
           /\ ~Val(searchTopK).nan
           /\ Len(Val(searchResponse).results) <= Val(searchTopK).n
           /\ Len(Val(searchResponse).results) <= 10

(***************************************************************************)
(* Claims about aggregateMatches                                           *)
(***************************************************************************)
\* what the claims say of one input match, read off the match itself
KeyOfMatch(m) ==
    IF m.metadata = None THEN "unknown"
    ELSE LET named == SelectSeq(<<Val(m.metadata).parentId, Val(m.metadata).parent_id,
                                  Val(m.metadata).parent>>, IsSome)
         IN  IF named = <<>> THEN "unknown" ELSE Val(named[1])
ScoreOfMatch(m) == IF m.score = None THEN 0 ELSE Val(m.score)
IndexOfMatch(m) ==
    IF m.metadata = None \/ Val(m.metadata).chunkIndex = None THEN 0
    ELSE Val(Val(m.metadata).chunkIndex)
InstructionsOfMatch(m) ==
    IF m.metadata = None \/ Val(m.metadata).instructions = None THEN <<>>
    ELSE Val(Val(m.metadata).instructions)

\* the positions in matches of the chunks of parent p
ChunksOf(p) == {i \in 1..Len(matches) : KeyOfMatch(matches[i]) = p}
ParentsIn == {KeyOfMatch(matches[i]) : i \in 1..Len(matches)}

\* the orders in which a set of positions can be listed
Arrangements(I) ==
    {f \in [1..Cardinality(I) -> I] : \A a, b \in 1..Cardinality(I) : a # b => f[a] # f[b]}

ClaimedScore(p) ==
    LET sc == [i \in ChunksOf(p) |-> ScoreOfMatch(matches[i])]
        RECURSIVE Sum(_)
        Sum(I) == IF I = {} THEN 0
                  ELSE LET i == CHOOSE x \in I : TRUE IN sc[i] + Sum(I \ {i})
    IN  10 * SetMax({sc[i] : i \in ChunksOf(p)}) + Sum(ChunksOf(p))

\* C9: aggregateMatches gives each parent the score max + 0.1 * sum over
\* exactly the chunks of that parent and returns the parents by descending
\* score, cut to the topKParents highest.
C9_ScoreOrderAndCut ==
    apc # "call" =>
        /\ Len(results) = Min(topKParents, Cardinality(ParentsIn))
        /\ \A k \in 1..Len(results) :
              /\ results[k].parentId \in ParentsIn
              /\ results[k].score = ClaimedScore(results[k].parentId)
        /\ \A k, l \in 1..Len(results) :
              /\ k < l => results[k].score >= results[l].score
              /\ k # l => results[k].parentId # results[l].parentId
        /\ \A p \in ParentsIn :
              (\A k \in 1..Len(results) : results[k].parentId # p) =>
                  \A k \in 1..Len(results) : results[k].score >= ClaimedScore(p)

\* two parents, one of them with two chunks of different scores, and
\* topKParents = 1 cuts the lower one off
C9_Witness ==
    /\ apc # "call" /\ topKParents = 1 /\ Len(results) = 1
    /\ Cardinality(ParentsIn) = 2
    /\ \E p \in ParentsIn : \E i, j \in ChunksOf(p) :
          ScoreOfMatch(matches[i]) < ScoreOfMatch(matches[j])
    /\ \E p \in ParentsIn : ClaimedScore(p) < results[1].score

\* C10: every input match lands in the matchedChunks of exactly one group,
\* keyed by the first present of metadata.parentId / parent_id / parent, or
\* "unknown"; with topKParents at least the number of groups the matchedChunks
\* lists together hold every input match exactly once.
C10_GroupsExhaustive ==
    (apc # "call" /\ topKParents >= Cardinality(ParentsIn)) =>
        /\ \A i \in 1..Len(matches) :
              LET at == {<<k, a>> \in (1..Len(results)) \X (1..Len(matches)) :
                            /\ a <= Len(results[k].matchedChunks)
                            /\ results[k].matchedChunks[a].id = matches[i].id}
              IN  /\ Cardinality(at) = 1
                  /\ \A ka \in at :
                        /\ results[ka[1]].parentId = KeyOfMatch(matches[i])
                        /\ results[ka[1]].matchedChunks[ka[2]].score = ScoreOfMatch(matches[i])
        /\ \A k \in 1..Len(results) :
              Len(results[k].matchedChunks) = Cardinality(ChunksOf(results[k].parentId))

\* a match without metadata and one with metadata that names no parent share
\* the group "unknown", next to a parent named by parent_id alone
C10_Witness ==
    /\ apc # "call" /\ topKParents >= Cardinality(ParentsIn)
    /\ \E i, j, l \in 1..Len(matches) :
          /\ matches[i].metadata = None
          /\ matches[j].metadata # None /\ KeyOfMatch(matches[j]) = "unknown"
          /\ matches[l].id = ChunkId("p1", 1)
    /\ \E k \in 1..Len(results) :
          results[k].parentId = "unknown" /\ Len(results[k].matchedChunks) = 2

\* the parents and scores of a result list, in order
Ranking(rs) == [k \in 1..Len(rs) |-> <<rs[k].parentId, rs[k].score>>]

\* the matches listed in the order f
Relisted(f) == [a \in 1..Len(matches) |-> matches[f[a]]]

\* C11: aggregateMatches is deterministic over a fixed set of chunk matches:
\* in whatever order the same matches are listed, it returns the same parents
\* in the same order with the same scores, also when two parents tie.
C11_OrderIndependent ==
    apc = "aggregate" =>
        \A f \in Arrangements(1..Len(matches)) :
            Ranking(aggregateMatches(Relisted(f), topKParents)) = Ranking(results)

\* C12: a parent with a chunk that scores strictly higher than every chunk of
\* another parent has the higher aggregate score and is ranked above it,
\* however many chunks the other parent has.
C12_DominantChunkWins ==
    (apc = "aggregate" /\ topKParents >= Cardinality(ParentsIn)) =>
        \A k, l \in 1..Len(results) :
            (\E i \in ChunksOf(results[k].parentId) :
                \A j \in ChunksOf(results[l].parentId) :
                    ScoreOfMatch(matches[i]) > ScoreOfMatch(matches[j]))
            => (results[k].score > results[l].score /\ k < l)

(***************************************************************************)
(* postMatchByIngredients (controllers/matchController.ts)                 *)
(*                                                                         *)
(* A match score is kept as a whole number of sixtieths (60 is 1.0, 36 is  *)
(* 0.6), exact for ingredient lists of 1 to 6 tokens.                      *)
(***************************************************************************)
\* the fallback cut one lower
MinExactMatchesLow == 10 - 1

MinExactMatches == 10
MaxResults == 50
FallbackTopK == 50
ScoreOne == 2 * 2 * 3 * 5
ScoreLenient == (6 * ScoreOne) \div 10

Lowers == <<"a", "b", "c", "d", "e", "f", "g", "h", "i", "j", "k", "l", "m",
            "n", "o", "p", "q", "r", "s", "t", "u", "v", "w", "x", "y", "z">>
Uppers == <<"A", "B", "C", "D", "E", "F", "G", "H", "I", "J", "K", "L", "M",
            "N", "O", "P", "Q", "R", "S", "T", "U", "V", "W", "X", "Y", "Z">>
Digits == {"0", "1", "2", "3", "4", "5", "6", "7", "8", "9"}

\* String.prototype.toLowerCase()
LowerOf == [c \in Range(Uppers) |-> Lowers[CHOOSE k \in 1..Len(Uppers) : Uppers[k] = c]]
ToLowerCase(s) == [i \in 1..Len(s) |-> IF s[i] \in DOMAIN LowerOf THEN LowerOf[s[i]] ELSE s[i]]

\* .replace(/[^a-z0-9\s]/g, "")
KeptChars == Range(Lowers) \cup Digits \cup Whitespace
StripOthers(s) == SelectSeq(s, LAMBDA c : c \in KeptChars)

\* .replace(/\s+/g, " ")
RECURSIVE CollapseSpaces(_)
CollapseSpaces(s) ==
    IF s = <<>> THEN <<>>
    ELSE IF Head(s) \in Whitespace
         THEN <<" ">> \o CollapseSpaces(TrimStart(Tail(s)))
         ELSE <<Head(s)>> \o CollapseSpaces(Tail(s))

normalizeIngredientToken(s) == Trim(CollapseSpaces(StripOthers(ToLowerCase(s))))

\* .split(/[,;|\n]/)
Separators == {",", ";", "|", "\n"}
RECURSIVE Split(_)
Split(s) ==
    IF \A i \in 1..Len(s) : s[i] \notin Separators THEN <<s>>
    ELSE LET i == CHOOSE k \in 1..Len(s) :
                      s[k] \in Separators /\ \A j \in 1..(k - 1) : s[j] \notin Separators
         IN  <<SubSeq(s, 1, i - 1)>> \o Split(SubSeq(s, i + 1, Len(s)))

\* reqIngRaw.split(...).map(normalizeIngredientToken).filter(Boolean)
ReqTokens(reqIngRaw) ==
    LET parts == Split(reqIngRaw)
    IN  SelectSeq([i \in 1..Len(parts) |-> normalizeIngredientToken(parts[i])],
                  LAMBDA t : t # <<>>)

\* reqTokens.filter((t) => !providedSet.has(t))
Missing(reqTokens, providedSet) == SelectSeq(reqTokens, LAMBDA t : t \notin providedSet)

\* the denominator taken from the provided set, not from the recipe's tokens
MatchScoreOverProvided(reqTokens, providedSet) ==
    IF Len(reqTokens) > 0
    THEN ((Len(reqTokens) - Len(Missing(reqTokens, providedSet))) * ScoreOne)
             \div Cardinality(providedSet)
    ELSE 0

\* an empty ingredient list counted as fully matched
MatchScoreVacuous(reqTokens, providedSet) ==
    IF Len(reqTokens) > 0
    THEN ((Len(reqTokens) - Len(Missing(reqTokens, providedSet))) * ScoreOne)
             \div Len(reqTokens)
    ELSE ScoreOne

\* reqTokens.length ? matchedCount / reqTokens.length : 0
MatchScore(reqTokens, providedSet) ==
    IF Len(reqTokens) > 0
    THEN ((Len(reqTokens) - Len(Missing(reqTokens, providedSet))) * ScoreOne)
             \div Len(reqTokens)
    ELSE 0

\* lines 143-171: the exact-tier entry of one cached recipe, or none
ExactEntry(r, providedSet) ==
    LET reqTokens == ReqTokens(r.ingredients)
        matchScore == MatchScore(reqTokens, providedSet)
    IN  IF matchScore = ScoreOne
        THEN <<[parentId |-> r.parentId, score |-> ScoreOne,
                missingIngredients |-> <<>>, recipe |-> r]>>
        ELSE IF matchScore >= ScoreLenient
        THEN <<[parentId |-> r.parentId, score |-> matchScore,
                missingIngredients |-> Missing(reqTokens, providedSet), recipe |-> r]>>
        ELSE <<>>

RECURSIVE ExactScan(_, _)
ExactScan(entries, providedSet) ==
    IF entries = <<>> THEN <<>>
    ELSE ExactEntry(Head(entries), providedSet) \o ExactScan(Tail(entries), providedSet)

\* lines 142-174: exactMatches after the sort
ExactTier(entries, providedSet) ==
    StableSortAsc(ExactScan(entries, providedSet), LAMBDA e : 0 - e.score)

\* full[p.parentId]
Lookup(entries, parentId) ==
    LET at == {i \in 1..Len(entries) : entries[i].parentId = parentId}
    IN  IF at = {} THEN None ELSE Some(entries[CHOOSE i \in at : TRUE])

\* lines 197-217: the result built for one aggregated parent
FallbackEntry(p, entries, providedSet) ==
    LET r == Lookup(entries, p.parentId)
        reqTokens == IF IsSome(r) THEN ReqTokens(Val(r).ingredients) ELSE <<>>
    IN  [parentId |-> p.parentId,
         matchScore |-> MatchScore(reqTokens, providedSet),
         missingIngredients |-> Missing(reqTokens, providedSet),
         fullRecipeSnippet |-> IF IsSome(r) /\ Val(r).title # "" THEN Some(Val(r).title) ELSE None,
         metadata |-> IF IsSome(r) THEN Val(r).metadata ELSE "{}"]

\* lines 193-220: the results of the fallback tier from reply.matches
FallbackTier(ms, entries, providedSet) ==
    LET parents == aggregateMatches(ms, FallbackTopK)
        results0 == [i \in 1..Len(parents) |-> FallbackEntry(parents[i], entries, providedSet)]
    IN  Take(StableSortAsc(results0, LAMBDA e : 0 - e.matchScore), MaxResults)

\* the recipes a cache can hold
Recipe(pid, title, ingredients) ==
    [parentId |-> pid, title |-> title, ingredients |-> ingredients, metadata |-> "{}"]
RowA == Recipe("A", "Tomato Soup", <<"t", "o", "m", "a", "t", "o", ",", " ", "o", "n", "i", "o", "n">>)
RowB == Recipe("B", "Garlic Bread", <<"b", "r", "e", "a", "d", ",", " ", "g", "a", "r", "l", "i", "c", ",", " ", "b", "u", "t", "t", "e", "r">>)
RowG == Recipe("G", "Tomato Sauce", <<"t", "o", "m", "a", "t", "o", ",", " ", "o", "n", "i", "o", "n", ",", " ", "g", "a", "r", "l", "i", "c">>)
RowE == Recipe("E", "Plain Water", <<>>)
RowM == Recipe("M", "Corn Salad", <<"T", "o", "m", "a", "t", "o", ";", "O", "N", "I", "O", "N", "|", "\n", " ", ",", " ", "S", "w", "e", "e", "t", " ", " ", "C", "o", "r", "n", "!">>)
CopyIds == <<"T1", "T2", "T3", "T4", "T5", "T6", "T7", "T8", "T9", "T10", "T11", "T12">>
Copy(k) == Recipe(CopyIds[k], "Tomato Juice", <<"t", "o", "m", "a", "t", "o">>)

CacheHeads == {<<>>, <<RowA, RowB>>, <<RowG, RowE>>, <<RowM, RowB, RowE>>}
Caches == {head \o [k \in 1..n |-> Copy(k)] : head \in CacheHeads, n \in 0..MaxCopies}

\* req.body.ingredients
Bodies ==
    { <<>>,
      <<<<"t", "o", "m", "a", "t", "o">>, <<"o", "n", "i", "o", "n">>>>,
      <<<<"t", "o", "m", "a", "t", "o">>, <<"o", "n", "i", "o", "n">>, <<"g", "a", "r", "l", "i", "c">>, <<"b", "a", "s", "i", "l">>>>,
      <<<<" ", "T", "o", "m", "a", "t", "o">>, <<"O", "N", "I", "O", "N", "!">>>>,
      <<<<"b", "r", "e", "a", "d">>, <<"g", "a", "r", "l", "i", "c">>>> }

\* the chunk the index holds for a recipe, and a chunk of a parent that is
\* not in the cache
IndexChunk(pid) ==
    [id |-> ChunkId(pid, 0),
     metadata |-> Some([parentId |-> Some(pid), parent_id |-> None, parent |-> None,
                        recipeId |-> None, chunkIndex |-> Some(0), instructions |-> None,
                        title |-> None, snippet |-> None, text |-> None])]

\* the chunks a reply is drawn from: those of the first recipes of the cache
\* (the further copies are alike) and the stray one
IndexChunks(entries) ==
    {IndexChunk(entries[i].parentId) : i \in 1..Min(Len(entries), MaxIndexed)} \cup {IndexChunk("Z")}

\* reply.matches: at most MaxReply chunks, best first
Replies(entries) ==
    { [i \in 1..Len(cs) |-> WithScore(cs[i], Some(20 - i))] :
        cs \in {c \in SeqsUpTo(IndexChunks(entries), MaxReply) :
                   \A i, j \in 1..Len(c) : i # j => c[i] # c[j]} }

InitMatch ==
    /\ ChunkIdle
    /\ AggIdle
    /\ IngestIdle
    /\ ClientsIdle
    /\ bodyIngredients \in Bodies
    /\ cacheExists \in BOOLEAN
    /\ full \in IF cacheExists THEN Caches ELSE {<<>>}
    /\ exactMatches = None
    /\ reply = None
    /\ response = None
    /\ embedCalls = 0
    /\ queryCalls = 0
    /\ embeddingsClient \in {None, Some("embeddings")}
    /\ pineconeClient \in {None, Some("pinecone")}
    /\ mpc = "start"

Respond(status, results0) == response' = Some([status |-> status, results |-> results0])

\* (body.ingredients || []).map(normalizeIngredientToken)
Ingredients ==
    [i \in 1..Len(bodyIngredients) |-> normalizeIngredientToken(bodyIngredients[i])]
ProvidedSet == Range(Ingredients)

\* lines 124-177: validation, the cache read and the exact tier
MatchExactTier ==
    /\ mpc = "start"
    /\ IF Len(Ingredients) = 0
       THEN Respond(400, <<>>) /\ mpc' = "done" /\ UNCHANGED exactMatches
       ELSE IF ~cacheExists
       THEN Respond(500, <<>>) /\ mpc' = "done" /\ UNCHANGED exactMatches
       ELSE LET exact == ExactTier(full, ProvidedSet)
            IN  /\ exactMatches' = Some(exact)
                /\ IF Len(exact) >= MinExactMatches
                   THEN Respond(200, Take(exact, MaxResults)) /\ mpc' = "done"
                   ELSE mpc' = "ensure" /\ UNCHANGED response
    /\ UNCHANGED <<bodyIngredients, cacheExists, full, reply, embedCalls, queryCalls,
                   embeddingsClient, pineconeClient, clientVars, chunkVars, aggVars,
                   ingestVars>>

\* lines 180-181 and clients.ts 14-26: ensureClients()
MatchEnsureClients ==
    /\ mpc = "ensure"
    /\ embeddingsClient' = IF embeddingsClient = None THEN Some("embeddings") ELSE embeddingsClient
    /\ pineconeClient' = IF pineconeClient = None THEN Some("pinecone") ELSE pineconeClient
    /\ mpc' = "embed"
    /\ UNCHANGED <<bodyIngredients, cacheExists, full, exactMatches, reply, response, embedCalls,
                   queryCalls, clientVars, chunkVars, aggVars,
                   ingestVars>>

\* lines 182-184: embedDocuments([qText]) returns, or throws into the catch
MatchEmbed ==
    /\ mpc = "embed"
    /\ embedCalls' = embedCalls + 1
    /\ \/ mpc' = "query" /\ UNCHANGED response
       \/ Respond(500, <<>>) /\ mpc' = "done"
    /\ UNCHANGED <<bodyIngredients, cacheExists, full, exactMatches, reply, queryCalls,
                   embeddingsClient, pineconeClient, clientVars, chunkVars, aggVars,
                   ingestVars>>

\* lines 185-220: the index query, the aggregation and the response; or the
\* query throws into the catch
MatchQuery ==
    /\ mpc = "query"
    /\ queryCalls' = queryCalls + 1
    /\ \/ \E ms \in Replies(full) :
             /\ reply' = Some(ms)
             /\ Respond(200, FallbackTier(ms, full, ProvidedSet))
       \/ Respond(500, <<>>) /\ UNCHANGED reply
    /\ mpc' = "done"
    /\ UNCHANGED <<bodyIngredients, cacheExists, full, exactMatches, embedCalls,
                   embeddingsClient, pineconeClient, clientVars, chunkVars, aggVars,
                   ingestVars>>

NextMatch == MatchExactTier \/ MatchEnsureClients \/ MatchEmbed \/ MatchQuery

SpecMatch == InitMatch /\ [][NextMatch]_vars

(***************************************************************************)
(* ensureClients (src/utils/clients.ts) under concurrent requests          *)
(***************************************************************************)
\* the module state of clients.ts with the constructions made so far
ClientsState ==
    [embeddingsClient |-> embeddingsClient, pineconeClient |-> pineconeClient,
     pineconeIndex |-> clientsIndex, constructed |-> constructed, threw |-> FALSE]

\* new GoogleGenerativeAIEmbeddings(...) / new PineconeClient(): a fresh instance
Instance(class, st) == [class |-> class, serial |-> Len(st.constructed) + 1]

\* an embedding client is built on every call
EnsureEmbeddingsAlways(st, env) ==
    IF env = "noGeminiKey" THEN [st EXCEPT !.threw = TRUE]
    ELSE [st EXCEPT !.embeddingsClient = Some(Instance("embeddings", st)),
                    !.constructed = Append(@, Instance("embeddings", st))]

\* lines 15-20: the embedding client is built if there is none; the
\* constructor throws in a process that has no API key
EnsureEmbeddings(st, env) ==
    IF st.embeddingsClient # None THEN st
    ELSE IF env = "noGeminiKey" THEN [st EXCEPT !.threw = TRUE]
    ELSE [st EXCEPT !.embeddingsClient = Some(Instance("embeddings", st)),
                    !.constructed = Append(@, Instance("embeddings", st))]

\* lines 21-24: the index client is built if there is none, then its index
\* handle; either can throw in a process that lacks the key or the index name
EnsurePinecone(st, env) ==
    IF st.threw \/ st.pineconeClient # None THEN st
    ELSE IF env = "noPineconeKey" THEN [st EXCEPT !.threw = TRUE]
    ELSE LET built == [st EXCEPT !.pineconeClient = Some(Instance("pinecone", st)),
                                 !.constructed = Append(@, Instance("pinecone", st))]
         IN  IF env = "noIndexName" THEN [built EXCEPT !.threw = TRUE]
             ELSE [built EXCEPT !.pineconeIndex = Some([indexOf |-> Val(built.pineconeClient)])]

\* lines 14-26: the body has no await and runs to its end in one turn
ensureClients(st, env) == EnsurePinecone(EnsureEmbeddings(st, env), env)

\* what an await ensureClients() has got so far
NoResult == [resolved |-> FALSE, threw |-> FALSE, embeddingsClient |-> None, pineconeIndex |-> None]
ResultOf(st) ==
    IF st.threw THEN [NoResult EXCEPT !.resolved = TRUE, !.threw = TRUE]
    ELSE [resolved |-> TRUE, threw |-> FALSE, embeddingsClient |-> st.embeddingsClient,
          pineconeIndex |-> st.pineconeIndex]

Requests == 1..MaxRequests

InitClients ==
    /\ ChunkIdle
    /\ AggIdle
    /\ IngestIdle
    /\ RequestIdle
    /\ embeddingsClient = None
    /\ pineconeClient = None
    /\ clientsIndex = None
    /\ clientsEnv \in {"ok", "noGeminiKey", "noPineconeKey", "noIndexName"}
    /\ constructed = <<>>
    /\ ensureAt = [r \in Requests |-> "before"]
    /\ ensureResult = [r \in Requests |-> NoResult]

\* a request handler reaches its await ensureClients(): the call runs
EnsureCall(r) ==
    /\ ensureAt[r] = "before"
    /\ LET st == ensureClients(ClientsState, clientsEnv)
       IN  /\ embeddingsClient' = st.embeddingsClient
           /\ pineconeClient' = st.pineconeClient
           /\ clientsIndex' = st.pineconeIndex
           /\ constructed' = st.constructed
           /\ ensureResult' = [ensureResult EXCEPT ![r] = ResultOf(st)]
    /\ ensureAt' = [ensureAt EXCEPT ![r] = "awaiting"]
    /\ UNCHANGED <<clientsEnv, bodyIngredients, cacheExists, full, exactMatches, reply, response,
                   embedCalls, queryCalls, mpc, chunkVars, aggVars, ingestVars>>

\* the handler is resumed after its await, other handlers having run or not
EnsureResume(r) ==
    /\ ensureAt[r] = "awaiting"
    /\ ensureAt' = [ensureAt EXCEPT ![r] = "after"]
    /\ UNCHANGED <<embeddingsClient, pineconeClient, clientsIndex, clientsEnv, constructed,
                   ensureResult, bodyIngredients, cacheExists, full, exactMatches, reply,
                   response, embedCalls, queryCalls, mpc, chunkVars, aggVars, ingestVars>>

NextClients == \E r \in Requests : EnsureCall(r) \/ EnsureResume(r)

SpecClients == InitClients /\ [][NextClients]_vars

(***************************************************************************)
(* Claims about ensureClients                                              *)
(***************************************************************************)
ConstructedOf(class) == {i \in 1..Len(constructed) : constructed[i].class = class}
Resolved == {r \in Requests : ensureResult[r].resolved /\ ~ensureResult[r].threw}

\* C23: the embedding client and the vector-index client are process-wide
\* lazy singletons: however the ensureClients() calls of concurrent requests
\* interleave, each client is constructed at most once, on the first call,
\* and every call returns the same two instances, the ones the module holds.
C23_ClientsAreSingletons ==
    /\ Cardinality(ConstructedOf("embeddings")) <= 1
    /\ Cardinality(ConstructedOf("pinecone")) <= 1
    /\ \A r \in Resolved :
          /\ ensureResult[r].embeddingsClient = embeddingsClient
          /\ ensureResult[r].pineconeIndex = clientsIndex
          /\ embeddingsClient = Some(constructed[1])
    /\ \A r1, r2 \in Resolved : ensureResult[r1] = ensureResult[r2]

\* every request has got its clients, and both were built once
C23_Witness ==
    /\ \A r \in Requests : ensureAt[r] = "after" /\ r \in Resolved
    /\ Cardinality(ConstructedOf("embeddings")) = 1
    /\ Cardinality(ConstructedOf("pinecone")) = 1
    /\ \A r \in Requests : IsSome(ensureResult[r].embeddingsClient) /\ IsSome(ensureResult[r].pineconeIndex)

(***************************************************************************)
(* Claims about postMatchByIngredients                                     *)
(***************************************************************************)
TomatoOnion == <<<<"t", "o", "m", "a", "t", "o">>, <<"o", "n", "i", "o", "n">>>>
TomatoOnionGarlicBasil == <<<<"t", "o", "m", "a", "t", "o">>, <<"o", "n", "i", "o", "n">>, <<"g", "a", "r", "l", "i", "c">>, <<"b", "a", "s", "i", "l">>>>

\* the score of a response item: score in the exact tier, matchScore in the fallback
ItemScore(item) == IF "matchScore" \in DOMAIN item THEN item.matchScore ELSE item.score

Answered == mpc = "done" /\ response # None /\ Val(response).status = 200
Results == Val(response).results

\* C3: with the cache and the index holding exactly Row A and Row B, a match
\* request for tomato and onion is answered with Row A first, at score 1.0,
\* and without Row B.  Stated for the runs in which the embedding call and the
\* index answer, the index with the two chunks it holds.
C3_EndToEnd ==
    ( /\ mpc = "done"
      /\ cacheExists /\ full = <<RowA, RowB>> /\ bodyIngredients = TomatoOnion
      /\ reply # None
      /\ {Val(reply)[i].id : i \in 1..Len(Val(reply))} = {ChunkId("A", 0), ChunkId("B", 0)} )
    => /\ Val(response).status = 200
       /\ Len(Results) >= 1
       /\ Results[1].parentId = "A" /\ ItemScore(Results[1]) = ScoreOne
       /\ \A k \in 1..Len(Results) : Results[k].parentId # "B"

CachedAt(pid) == {i \in 1..Len(full) : full[i].parentId = pid}
TokensOf(i) == ReqTokens(full[i].ingredients)
PresentIn(toks, provided) == Cardinality({j \in 1..Len(toks) : toks[j] \in provided})
AbsentFrom(toks, provided) == SelectSeq(toks, LAMBDA t : t \notin provided)

\* C5: for every cached document with a non-empty token list the matcher's
\* score is (document tokens present in the provided set) / (document tokens)
\* and missingIngredients is exactly the document tokens absent from the
\* provided set; "tomato, onion, garlic" with tomato, onion, garlic, basil
\* provided gives 1.0 and [], with tomato, onion provided 2/3 and [garlic].
C5_ScoreAndMissing ==
    LET provided == ProvidedSet
        tokens == [i \in 1..Len(full) |-> TokensOf(i)]
    IN
    /\ Answered =>
          \A k \in 1..Len(Results) : \A i \in CachedAt(Results[k].parentId) :
              Len(tokens[i]) > 0 =>
                  /\ ItemScore(Results[k]) * Len(tokens[i])
                         = PresentIn(tokens[i], provided) * ScoreOne
                  /\ Results[k].missingIngredients = AbsentFrom(tokens[i], provided)
                  /\ (Results[k].parentId = "G" /\ bodyIngredients = TomatoOnionGarlicBasil) =>
                         /\ ItemScore(Results[k]) = ScoreOne
                         /\ Results[k].missingIngredients = <<>>
                  /\ (Results[k].parentId = "G" /\ bodyIngredients = TomatoOnion) =>
                         /\ 3 * ItemScore(Results[k]) = 2 * ScoreOne
                         /\ Results[k].missingIngredients = <<<<"g", "a", "r", "l", "i", "c">>>>
    /\ exactMatches # None =>
          \A i \in 1..Len(full) :
              (/\ Len(tokens[i]) > 0
               /\ 10 * PresentIn(tokens[i], provided) >= 6 * Len(tokens[i])) =>
                  \E k \in 1..Len(Val(exactMatches)) :
                      /\ Val(exactMatches)[k].parentId = full[i].parentId
                      /\ Val(exactMatches)[k].score * Len(tokens[i])
                             = PresentIn(tokens[i], provided) * ScoreOne
                      /\ Val(exactMatches)[k].missingIngredients
                             = AbsentFrom(tokens[i], provided)

\* "tomato, onion, garlic" answered at 2/3 with garlic missing, and a recipe
\* written with other separators, capitals and punctuation answered as well
C5_Witness ==
    /\ Answered /\ bodyIngredients = TomatoOnion
    /\ \E k \in 1..Len(Results) :
          /\ Results[k].parentId = "G"
          /\ 3 * ItemScore(Results[k]) = 2 * ScoreOne
          /\ Results[k].missingIngredients = <<<<"g", "a", "r", "l", "i", "c">>>>

\* C6 as claimed: a cached document whose ingredient list is empty gets
\* matchScore 1.0 and is kept as an exact-tier candidate for any non-empty
\* provided set.
C6_EmptyListScoresOne ==
    exactMatches # None =>
        \A i \in 1..Len(full) :
            TokensOf(i) = <<>> =>
                \E k \in 1..Len(Val(exactMatches)) :
                    /\ Val(exactMatches)[k].parentId = full[i].parentId
                    /\ Val(exactMatches)[k].score = ScoreOne

\* C6 as amended: a cached document whose ingredient list is empty gets
\* matchScore 0: it is never kept as an exact-tier candidate, and when the
\* fallback tier lists it, it is listed with matchScore 0 and nothing missing.
C6_EmptyListScoresZero ==
    \A i \in 1..Len(full) :
        TokensOf(i) = <<>> =>
            /\ exactMatches # None =>
                  \A k \in 1..Len(Val(exactMatches)) :
                      Val(exactMatches)[k].parentId # full[i].parentId
            /\ Answered =>
                  \A k \in 1..Len(Results) :
                      Results[k].parentId = full[i].parentId =>
                          ItemScore(Results[k]) = 0 /\ Results[k].missingIngredients = <<>>

\* the exact tier ran over a cache holding a recipe without ingredients, and
\* the fallback tier then listed that recipe
C6_Witness ==
    /\ Answered /\ exactMatches # None /\ Len(bodyIngredients) > 0
    /\ \E i \in 1..Len(full) :
          /\ TokensOf(i) = <<>>
          /\ \E k \in 1..Len(Results) : Results[k].parentId = full[i].parentId

\* C24: engaging the fallback tier does not lose exact answers: when the
\* exact tier kept between 1 and 9 candidates, every exact-tier candidate of
\* score 1.0 is in the response, whatever reply.matches of the index holds.
C24_FallbackKeepsExact ==
    ( /\ Answered /\ exactMatches # None /\ reply # None
      /\ Len(Val(exactMatches)) >= 1 /\ Len(Val(exactMatches)) <= 9 )
    => \A i \in 1..Len(Val(exactMatches)) :
           Val(exactMatches)[i].score = ScoreOne =>
               \E k \in 1..Len(Results) : Results[k].parentId = Val(exactMatches)[i].parentId

(***************************************************************************)
(* runIngest and its flushes (scripts/ingestRecipes.ts:191-459)            *)
(*                                                                         *)
(* A row holds the columns Srno, RecipeName, Ingredients and Instructions; *)
(* an absent column is the empty string, which || treats alike.  The rows  *)
(* of the model carry no Cuisine, Course, Diet, URL or timing column.      *)
(***************************************************************************)
MaxRows == 2
MaxRestarts == 1
MaxFaults == 2
LongRows == 52
ShortRows == 8

\* line 19: PINECONE_NAMESPACE is not set in the environment
PINECONE_NAMESPACE == "production"

\* process.env.BATCH_SIZE, UPsert_BATCH, CHUNK_SIZE_CHARS and CHUNK_OVERLAP of
\* the run (lines 20-23): small values, chosen so that the short rows below
\* fill a batch and yield more than one chunk
BATCH_SIZE == 2
UPsert_BATCH == 2
CHUNK_SIZE == 3
CHUNK_OVERLAP == 1

\* a checkpoint period one row longer
CheckpointEveryLong == 50 + 1

\* line 312: a checkpoint is written for the rows with idx % 50 = 0
CheckpointEvery == 50

\* lines 48-61 gathered, for a text on which the loop returns
RECURSIVE ChunksFrom(_, _, _, _)
ChunksFrom(t, sz, ov, st) ==
    LET end == WindowEnd(t, sz, st)
        chunk == Trim(Slice(t, st, end))
        here == IF chunk # <<>> THEN <<chunk>> ELSE <<>>
    IN  IF LoopLeft(t, end, ov) THEN here
        ELSE here \o ChunksFrom(t, sz, ov, NextStart(end, ov))

chunkText(t, sz, ov) == IF t = <<>> THEN <<>> ELSE ChunksFrom(t, sz, ov, 0)

\* sha256 as an injective function of its input
sha256(s) == <<"sha256(">> \o s \o <<")">>

safeTrim(s) == Trim(s)

Row(srno, name, ingredients, instructions) ==
    [Srno |-> srno, RecipeName |-> name, Ingredients |-> ingredients,
     Instructions |-> instructions]

\* lines 209-211
TitleOf(row) == safeTrim(row.RecipeName)

\* lines 212-218
RawIngredientsOf(row) == safeTrim(row.Ingredients)

\* lines 219-224
ParentIdOf(row) ==
    IF row.Srno # <<>> THEN row.Srno
    ELSE <<"r", "i", "d", "-">> \o sha256(TitleOf(row) \o <<"|">> \o RawIngredientsOf(row))

\* rawIngredients.split(/[,;|\n]/).map((s) => s.trim().toLowerCase()).filter(Boolean)
IngredientList(raw) ==
    LET parts == Split(raw)
    IN  SelectSeq([i \in 1..Len(parts) |-> ToLowerCase(Trim(parts[i]))], LAMBDA t : t # <<>>)

\* lines 66-94; the label "Ingredients: " is kept as one element
buildPrefix(row) ==
    LET title == TitleOf(row)
        ingredients == IngredientList(RawIngredientsOf(row))
        prefixParts ==
            (IF title # <<>> THEN <<title>> ELSE <<>>)
            \o (IF ingredients # <<>>
                THEN << <<"Ingredients: ">> \o Join(ingredients, <<",", " ">>) >>
                ELSE <<>>)
    IN  Join(prefixParts, <<"\n">>) \o (IF prefixParts # <<>> THEN <<"\n", "\n">> ELSE <<>>)

\* lines 97-105
getFullInstructions(row) == safeTrim(row.Instructions)

\* lines 235-255
FullRecipeObj(row) ==
    [parentId |-> ParentIdOf(row), title |-> TitleOf(row),
     ingredients |-> RawIngredientsOf(row), instructions |-> getFullInstructions(row)]

\* the cache kept as a list that every processed row is pushed to
PutRecipeAppend(entries, obj) == Append(entries, obj)

\* fullRecipes[parentId] = fullRecipeObj: a known key keeps its place
PutRecipe(entries, obj) ==
    IF \E i \in 1..Len(entries) : entries[i].parentId = obj.parentId
    THEN [i \in 1..Len(entries) |->
             IF entries[i].parentId = obj.parentId THEN obj ELSE entries[i]]
    ELSE Append(entries, obj)

\* lines 261-267
FinalChunks(row) ==
    LET chunks == chunkText(getFullInstructions(row), CHUNK_SIZE, CHUNK_OVERLAP)
    IN  IF chunks # <<>> THEN chunks ELSE << <<>> >>

\* line 272
PageContent(row, c) == Trim(buildPrefix(row) \o <<"\n">> \o FinalChunks(row)[c + 1])

\* totalChunks taken from the chunker's list, before the empty chunk is substituted
ChunkMetadataRaw(row, c) ==
    [parentId |-> ParentIdOf(row), chunkIndex |-> c,
     totalChunks |-> Len(chunkText(getFullInstructions(row), CHUNK_SIZE, CHUNK_OVERLAP)),
     title |-> TitleOf(row), ingredients |-> IngredientList(RawIngredientsOf(row)),
     source |-> "csv"]

\* lines 275-296
ChunkMetadata(row, c) ==
    [parentId |-> ParentIdOf(row), chunkIndex |-> c, totalChunks |-> Len(FinalChunks(row)),
     title |-> TitleOf(row), ingredients |-> IngredientList(RawIngredientsOf(row)),
     source |-> "csv"]

\* line 299
BatchMeta(row, c) ==
    [id |-> ChunkId(ParentIdOf(row), c), metadata |-> ChunkMetadata(row, c),
     parentId |-> ParentIdOf(row)]

\* the vector the embedding model gives a text: its values stand for the text
Embedding(t) == <<t>>

\* what embedDocuments(texts) can resolve to: one vector per text, a result
\* one vector short, or a result whose first vector is empty
EmbedReplies(texts) ==
    LET good == [i \in 1..Len(texts) |-> Embedding(texts[i])]
    IN  {good, SubSeq(good, 1, Len(good) - 1), [good EXCEPT ![1] = <<>>]}

\* upsert(vectors): a vector replaces the one stored under its id
Upsert(stored, slice) ==
    {it \in stored : \A i \in 1..Len(slice) : slice[i].id # it.id} \cup Range(slice)

\* failed_upsert_<time>.json: a file of the same name is overwritten
WriteFailedFile(files, time, slice) ==
    {f \in files : f.time # time} \cup {[time |-> time, vectors |-> slice]}

\* the rows a CSV file can hold
RowOne == Row(<<"1">>, <<"T">>, <<"x", ",", "Y">>, <<"a", "b">>)
RowTwo == Row(<<"2">>, <<"U">>, <<>>, <<"a", "b", "c", "d", "e">>)
RowBlank == Row(<<>>, <<>>, <<>>, <<>>)
RowNoText == Row(<<>>, <<"V">>, <<"x">>, <<" ">>)
RowText == Row(<<>>, <<" ", "V">>, <<"x">>, <<"a", "b", "c", "d", "e">>)
IngestRows == {RowOne, RowTwo, RowBlank, RowNoText, RowText}

\* the CSV files of the model; a run reads the first rows of one of them
CsvFiles ==
    { <<RowOne, RowTwo, RowBlank>>,
      <<RowText, RowNoText, RowOne>>,
      <<RowNoText, RowNoText, RowTwo>>,
      <<RowBlank, RowOne, RowText>>,
      <<RowTwo, RowOne, RowOne>> }
RowLists == {Take(file, n) : file \in CsvFiles, n \in 0..MaxRows}

\* fullRecipes after the rows 0..k-1 were stored
RECURSIVE RecipesOf(_, _)
RecipesOf(rs, k) ==
    IF k = 0 THEN <<>> ELSE PutRecipe(RecipesOf(rs, k - 1), FullRecipeObj(rs[k]))

\* lines 127-134: the checkpoint a starting script loads
LoadCheckpoint(file) == IF IsSome(file) THEN Val(file) ELSE -1

\* lines 115-125: the cache a starting script loads
LoadFullRecipes(file) == IF IsSome(file) THEN Val(file) ELSE <<>>

\* texts.filter of lines 348-365: the positions whose text is not blank
NonEmptyAt(texts) == SelectSeq([i \in 1..Len(texts) |-> i], LAMBDA i : Trim(texts[i]) # <<>>)
NonEmptyTexts(texts) == [j \in 1..Len(NonEmptyAt(texts)) |-> texts[NonEmptyAt(texts)[j]]]
\* the first records of meta, as many as there are non-blank texts
NonEmptyMetaUnfiltered(texts, meta) == [j \in 1..Len(NonEmptyAt(texts)) |-> meta[j]]

\* lines 348-365: the meta records of the non-blank texts
NonEmptyMeta(texts, meta) == [j \in 1..Len(NonEmptyAt(texts)) |-> meta[NonEmptyAt(texts)[j]]]

\* an embedding call that threw, or resolved to a result of another length
\* or with an empty vector
EmbedFailed(q) ==
    \/ q.reply = None
    \/ Len(Val(q.reply)) # Len(q.texts)
    \/ \E i \in 1..Len(Val(q.reply)) : Val(q.reply)[i] = <<>>

\* the upsert calls that failed so far
UpsertFailures == Len(SelectSeq(upsertRequests, LAMBDA r : ~r.ok))

inputVars == <<rows, loaded, restarts>>
fileVars == <<checkpoint, checkpointFile, fullRecipesFile>>
batchVars == <<embedBatchTexts, embedBatchMeta>>
embedVars == <<nonEmptyMeta, vectors, pushAt>>
storeVars == <<pineconeIndex, failedFiles, now, upsertRequests>>
otherVars == <<chunkVars, aggVars, matchVars>>

\* The script starts with no checkpoint, or with the two files an earlier run
\* left for the first rows; the index namespace is empty.
InitIngest ==
    /\ ChunkIdle
    /\ AggIdle
    /\ MatchIdle
    /\ rows \in RowLists
    /\ checkpointFile \in {None} \cup {Some(c) : c \in 0..MaxRows}
    /\ fullRecipesFile = IF checkpointFile = None THEN None
                         ELSE Some(RecipesOf(rows, Min(Val(checkpointFile) + 1, Len(rows))))
    /\ checkpoint = LoadCheckpoint(checkpointFile)
    /\ loaded = checkpoint
    /\ fullRecipes = LoadFullRecipes(fullRecipesFile)
    /\ idx = 0 /\ cix = 0
    /\ embedBatchTexts = <<>> /\ embedBatchMeta = <<>> /\ upsertBuffer = <<>>
    /\ nonEmptyMeta = <<>> /\ vectors = <<>> /\ pushAt = 0 /\ sliceAt = 0
    /\ pineconeIndex = {} /\ failedFiles = {} /\ now = 0
    /\ embedRequests = <<>> /\ upsertRequests = <<>>
    /\ embedReturn = "none" /\ upsertReturn = "none" /\ builtChunks = <<>>
    /\ sampleRequests = <<>> /\ faults = 0 /\ restarts = 0
    /\ ipc = "sample"

\* line 168: the document sampleEmbeddingCheck composes for a row
SampleDoc(row) == Trim(buildPrefix(row) \o <<"\n">> \o getFullInstructions(row))

\* lines 165-177: the rows sampleEmbeddingCheck passes over, and the first
\* row with a document
SampleRowAt ==
    LET have == {r \in 1..Len(rows) : SampleDoc(rows[r]) # <<>>}
    IN  IF have = {} THEN 0 ELSE CHOOSE r \in have : \A q \in have : r <= q

\* lines 164-180: before runIngest, the first row with a document is sent to
\* the embedding client; what comes back, or is thrown, is only logged
IngestSampleCheck ==
    /\ ipc = "sample"
    /\ sampleRequests' = IF SampleRowAt = 0 THEN <<>> ELSE << <<SampleDoc(rows[SampleRowAt])>> >>
    /\ ipc' = "row"
    /\ UNCHANGED <<inputVars, builtChunks, faults, fileVars, fullRecipes, idx, cix, batchVars,
                   upsertBuffer, embedVars, sliceAt, storeVars, embedRequests, embedReturn,
                   upsertReturn, otherVars>>

\* line 202: idx <= checkpoint.lastProcessedRow
Skipped(i) == i <= checkpoint

\* lines 202-205: a row at or below the checkpoint is skipped
IngestSkipRow ==
    /\ ipc = "row" /\ idx < Len(rows) /\ Skipped(idx)
    /\ idx' = idx + 1
    /\ UNCHANGED <<inputVars, builtChunks, sampleRequests, faults, fileVars, fullRecipes, cix, batchVars, upsertBuffer, embedVars,
                   sliceAt, storeVars, embedRequests, embedReturn, upsertReturn, ipc, otherVars>>

\* lines 207-267: the row is stored in the cache and its chunks are built
IngestBeginRow ==
    /\ ipc = "row" /\ idx < Len(rows) /\ ~Skipped(idx)
    /\ fullRecipes' = PutRecipe(fullRecipes, FullRecipeObj(rows[idx + 1]))
    /\ cix' = 0
    /\ ipc' = "chunk"
    /\ UNCHANGED <<inputVars, builtChunks, sampleRequests, faults, fileVars, idx, batchVars, upsertBuffer, embedVars, sliceAt,
                   storeVars, embedRequests, embedReturn, upsertReturn, otherVars>>

\* a batch flushed only when it has outgrown BATCH_SIZE
BatchFullLate(texts) == Len(texts) > BATCH_SIZE

\* line 300: embedBatchTexts.length >= BATCH_SIZE
BatchFull(texts) == Len(texts) >= BATCH_SIZE

\* lines 269-310: one chunk joins the embedding batch; a full batch is flushed
IngestPushChunk ==
    /\ ipc = "chunk" /\ cix < Len(FinalChunks(rows[idx + 1]))
    /\ embedBatchTexts' = Append(embedBatchTexts, PageContent(rows[idx + 1], cix))
    /\ embedBatchMeta' = Append(embedBatchMeta, BatchMeta(rows[idx + 1], cix))
    /\ cix' = cix + 1
    /\ builtChunks' = Append(builtChunks,
                             [row |-> idx, id |-> BatchMeta(rows[idx + 1], cix).id,
                              metadata |-> BatchMeta(rows[idx + 1], cix).metadata])
    /\ IF BatchFull(embedBatchTexts')
       THEN ipc' = "embed" /\ embedReturn' = "chunk"
       ELSE UNCHANGED <<ipc, embedReturn>>
    /\ UNCHANGED <<inputVars, sampleRequests, faults, fileVars, fullRecipes, idx, upsertBuffer, embedVars, sliceAt,
                   storeVars, embedRequests, upsertReturn, otherVars>>

\* lines 312-314: after the row's chunks, the checkpoint of a row with
\* idx % 50 = 0 is written
IngestEndRow ==
    /\ ipc = "chunk" /\ cix = Len(FinalChunks(rows[idx + 1]))
    /\ IF idx % CheckpointEvery = 0
       THEN /\ checkpoint' = idx
            /\ checkpointFile' = Some(idx)
            /\ ipc' = "saveCache"
            /\ UNCHANGED idx
       ELSE /\ idx' = idx + 1
            /\ ipc' = "row"
            /\ UNCHANGED <<checkpoint, checkpointFile>>
    /\ UNCHANGED <<inputVars, builtChunks, sampleRequests, faults, fullRecipesFile, fullRecipes, cix, batchVars, upsertBuffer,
                   embedVars, sliceAt, storeVars, embedRequests, embedReturn, upsertReturn,
                   otherVars>>

\* line 315: the cache file is written after the checkpoint file
IngestSaveCache ==
    /\ ipc = "saveCache"
    /\ fullRecipesFile' = Some(fullRecipes)
    /\ idx' = idx + 1
    /\ ipc' = "row"
    /\ UNCHANGED <<inputVars, builtChunks, sampleRequests, faults, checkpoint, checkpointFile, fullRecipes, cix, batchVars,
                   upsertBuffer, embedVars, sliceAt, storeVars, embedRequests, embedReturn,
                   upsertReturn, otherVars>>

\* lines 320-326: after the last row the remainder of the batch is flushed
IngestLoopEnd ==
    /\ ipc = "row" /\ idx >= Len(rows)
    /\ IF embedBatchTexts # <<>>
       THEN ipc' = "embed" /\ embedReturn' = "final"
       ELSE ipc' = "finalUpsert" /\ UNCHANGED embedReturn
    /\ UNCHANGED <<inputVars, builtChunks, sampleRequests, faults, fileVars, fullRecipes, idx, cix, batchVars, upsertBuffer,
                   embedVars, sliceAt, storeVars, embedRequests, upsertReturn, otherVars>>

\* a caller that never empties the batch
EmbedLeaveKeepsBatch ==
    /\ ipc' = IF embedReturn = "chunk" THEN "chunk" ELSE "finalUpsert"
    /\ UNCHANGED <<embedBatchTexts, embedBatchMeta>>

\* flushEmbedBatchAndUpsert returns: the caller in the row loop empties the
\* batch (lines 307-308), the caller after the loop does not
EmbedLeave ==
    /\ ipc' = IF embedReturn = "chunk" THEN "chunk" ELSE "finalUpsert"
    /\ embedBatchTexts' = IF embedReturn = "chunk" THEN <<>> ELSE embedBatchTexts
    /\ embedBatchMeta' = IF embedReturn = "chunk" THEN <<>> ELSE embedBatchMeta

\* lines 367-370: a batch of blank texts is skipped
IngestEmbedSkip ==
    /\ ipc = "embed" /\ NonEmptyTexts(embedBatchTexts) = <<>>
    /\ EmbedLeave
    /\ UNCHANGED <<inputVars, builtChunks, sampleRequests, faults, fileVars, fullRecipes, idx, cix, upsertBuffer, embedVars, sliceAt,
                   storeVars, embedRequests, embedReturn, upsertReturn, otherVars>>

\* lines 372-378: embedDocuments throws and the batch is dropped
IngestEmbedThrows ==
    /\ ipc = "embed" /\ NonEmptyTexts(embedBatchTexts) # <<>>
    /\ faults < MaxFaults
    /\ faults' = faults + 1
    /\ embedRequests' = Append(embedRequests,
                               [texts |-> NonEmptyTexts(embedBatchTexts), reply |-> None])
    /\ EmbedLeave
    /\ UNCHANGED <<inputVars, builtChunks, sampleRequests, fileVars, fullRecipes, idx, cix, upsertBuffer, embedVars, sliceAt,
                   storeVars, embedReturn, upsertReturn, otherVars>>

\* lines 374-399: embedDocuments resolves; a result of another length drops
\* the batch, a result of the right length enters the push loop
IngestEmbedResolves ==
    /\ ipc = "embed" /\ NonEmptyTexts(embedBatchTexts) # <<>>
    /\ \E vs \in EmbedReplies(NonEmptyTexts(embedBatchTexts)) :
          /\ IF EmbedFailed([texts |-> NonEmptyTexts(embedBatchTexts), reply |-> Some(vs)])
             THEN faults < MaxFaults /\ faults' = faults + 1
             ELSE UNCHANGED faults
          /\ embedRequests' = Append(embedRequests,
                                     [texts |-> NonEmptyTexts(embedBatchTexts),
                                      reply |-> Some(vs)])
          /\ IF Len(vs) # Len(NonEmptyTexts(embedBatchTexts))
             THEN EmbedLeave /\ UNCHANGED embedVars
             ELSE /\ nonEmptyMeta' = NonEmptyMeta(embedBatchTexts, embedBatchMeta)
                  /\ vectors' = vs
                  /\ pushAt' = 0
                  /\ ipc' = "push"
                  /\ UNCHANGED batchVars
    /\ UNCHANGED <<inputVars, builtChunks, sampleRequests, fileVars, fullRecipes, idx, cix, upsertBuffer, sliceAt,
                   storeVars, embedReturn, upsertReturn, otherVars>>

\* lines 401-423: one vector joins the upsert buffer, an empty one is skipped;
\* a full buffer is flushed
IngestPushVector ==
    /\ ipc = "push" /\ pushAt < Len(nonEmptyMeta)
    /\ pushAt' = pushAt + 1
    /\ LET metaItem == nonEmptyMeta[pushAt + 1]
           vector == vectors[pushAt + 1]
       IN  IF vector = <<>>
           THEN UNCHANGED <<upsertBuffer, ipc, sliceAt, upsertReturn>>
           ELSE /\ upsertBuffer' = Append(upsertBuffer,
                        [id |-> metaItem.id, values |-> vector, metadata |-> metaItem.metadata])
                /\ IF Len(upsertBuffer') >= UPsert_BATCH
                   THEN ipc' = "upsert" /\ sliceAt' = 0 /\ upsertReturn' = "push"
                   ELSE UNCHANGED <<ipc, sliceAt, upsertReturn>>
    /\ UNCHANGED <<inputVars, builtChunks, sampleRequests, faults, fileVars, fullRecipes, idx, cix, batchVars, nonEmptyMeta, vectors,
                   storeVars, embedRequests, embedReturn, otherVars>>

\* line 424: the push loop is over
IngestEmbedDone ==
    /\ ipc = "push" /\ pushAt = Len(nonEmptyMeta)
    /\ EmbedLeave
    /\ nonEmptyMeta' = <<>> /\ vectors' = <<>> /\ pushAt' = 0
    /\ UNCHANGED <<inputVars, builtChunks, sampleRequests, faults, fileVars, fullRecipes, idx, cix, upsertBuffer, sliceAt,
                   storeVars, embedRequests, embedReturn, upsertReturn, otherVars>>

\* a slice of one vector, whatever the slice size
SliceOfOne(buffer, i) == SubSeq(buffer, i + 1, Min(i + 1, Len(buffer)))

\* line 437: buffer.slice(i, i + chunkSize)
SliceOf(buffer, i) == SubSeq(buffer, i + 1, Min(i + UPsert_BATCH, Len(buffer)))

\* lines 436-445: the slice is upserted
IngestUpsertOk ==
    /\ ipc = "upsert" /\ sliceAt < Len(upsertBuffer)
    /\ pineconeIndex' = Upsert(pineconeIndex, SliceOf(upsertBuffer, sliceAt))
    /\ upsertRequests' = Append(upsertRequests,
                                [vectors |-> SliceOf(upsertBuffer, sliceAt),
                                 namespace |-> PINECONE_NAMESPACE, ok |-> TRUE])
    /\ sliceAt' = sliceAt + UPsert_BATCH
    /\ UNCHANGED <<inputVars, builtChunks, sampleRequests, faults, fileVars, fullRecipes, idx, cix, batchVars, upsertBuffer,
                   embedVars, failedFiles, now, embedRequests, embedReturn, upsertReturn, ipc,
                   otherVars>>

\* lines 446-455: the upsert throws and the slice is written to a file named
\* after the time, which has moved on since the last reading or has not
IngestUpsertFails ==
    /\ ipc = "upsert" /\ sliceAt < Len(upsertBuffer)
    /\ faults < MaxFaults
    /\ faults' = faults + 1
    /\ \E time \in {now, now + 1} :
          /\ now' = time
          /\ failedFiles' = WriteFailedFile(failedFiles, time, SliceOf(upsertBuffer, sliceAt))
    /\ upsertRequests' = Append(upsertRequests,
                                [vectors |-> SliceOf(upsertBuffer, sliceAt),
                                 namespace |-> PINECONE_NAMESPACE, ok |-> FALSE])
    /\ sliceAt' = sliceAt + UPsert_BATCH
    /\ UNCHANGED <<inputVars, builtChunks, sampleRequests, fileVars, fullRecipes, idx, cix, batchVars, upsertBuffer,
                   embedVars, pineconeIndex, embedRequests, embedReturn, upsertReturn, ipc,
                   otherVars>>

\* lines 457-458: the buffer is emptied and flushUpsertBuffer returns
IngestUpsertDone ==
    /\ ipc = "upsert" /\ sliceAt >= Len(upsertBuffer)
    /\ upsertBuffer' = <<>>
    /\ sliceAt' = 0
    /\ ipc' = upsertReturn
    /\ UNCHANGED <<inputVars, builtChunks, sampleRequests, faults, fileVars, fullRecipes, idx, cix, batchVars, embedVars, storeVars,
                   embedRequests, embedReturn, upsertReturn, otherVars>>

\* lines 327-329: what is left in the upsert buffer is flushed
IngestFinalUpsert ==
    /\ ipc = "finalUpsert"
    /\ IF upsertBuffer # <<>>
       THEN ipc' = "upsert" /\ sliceAt' = 0 /\ upsertReturn' = "finalCheckpoint"
       ELSE ipc' = "finalCheckpoint" /\ UNCHANGED <<sliceAt, upsertReturn>>
    /\ UNCHANGED <<inputVars, builtChunks, sampleRequests, faults, fileVars, fullRecipes, idx, cix, batchVars, upsertBuffer,
                   embedVars, storeVars, embedRequests, embedReturn, otherVars>>

\* lines 331-332: the final checkpoint
IngestFinalCheckpoint ==
    /\ ipc = "finalCheckpoint"
    /\ checkpoint' = Len(rows) - 1
    /\ checkpointFile' = Some(Len(rows) - 1)
    /\ ipc' = "finalCache"
    /\ UNCHANGED <<inputVars, builtChunks, sampleRequests, faults, fullRecipesFile, fullRecipes, idx, cix, batchVars, upsertBuffer,
                   embedVars, sliceAt, storeVars, embedRequests, embedReturn, upsertReturn,
                   otherVars>>

\* lines 333-334: the final write of the cache file
IngestFinalSaveCache ==
    /\ ipc = "finalCache"
    /\ fullRecipesFile' = Some(fullRecipes)
    /\ ipc' = "done"
    /\ UNCHANGED <<inputVars, builtChunks, sampleRequests, faults, checkpoint, checkpointFile, fullRecipes, idx, cix, batchVars,
                   upsertBuffer, embedVars, sliceAt, storeVars, embedRequests, embedReturn,
                   upsertReturn, otherVars>>

\* fs.writeJSONSync throws at line 314, 315, 332 or 333: runIngest rejects
\* and the top-level handler runs; lines 313 and 331 have already set the
\* checkpoint in memory
IngestWriteThrows ==
    /\ \/ ipc = "chunk" /\ cix = Len(FinalChunks(rows[idx + 1])) /\ idx % CheckpointEvery = 0
       \/ ipc \in {"saveCache", "finalCheckpoint", "finalCache"}
    /\ faults < MaxFaults
    /\ faults' = faults + 1
    /\ checkpoint' = CASE ipc = "chunk" -> idx
                        [] ipc = "finalCheckpoint" -> Len(rows) - 1
                        [] OTHER -> checkpoint
    /\ ipc' = "caught"
    /\ UNCHANGED <<inputVars, builtChunks, sampleRequests, checkpointFile, fullRecipesFile, fullRecipes,
                   idx, cix, batchVars, upsertBuffer, embedVars, sliceAt, storeVars,
                   embedRequests, embedReturn, upsertReturn, otherVars>>

\* lines 445-453: the upsert of a slice fails and the write of its failed file
\* throws as well: flushUpsertBuffer and runIngest reject
IngestFailedFileThrows ==
    /\ ipc = "upsert" /\ sliceAt < Len(upsertBuffer)
    /\ faults < MaxFaults
    /\ faults' = faults + 1
    /\ upsertRequests' = Append(upsertRequests,
                                [vectors |-> SliceOf(upsertBuffer, sliceAt),
                                 namespace |-> PINECONE_NAMESPACE, ok |-> FALSE])
    /\ ipc' = "caught"
    /\ UNCHANGED <<inputVars, builtChunks, sampleRequests, fileVars, fullRecipes, idx, cix, batchVars,
                   upsertBuffer, embedVars, sliceAt, pineconeIndex, failedFiles, now,
                   embedRequests, embedReturn, upsertReturn, otherVars>>

\* a handler that writes the checkpoint and leaves the cache file alone
IngestCatchCheckpointOnly ==
    /\ ipc = "caught"
    /\ checkpointFile' = Some(checkpoint)
    /\ ipc' = "failed"
    /\ UNCHANGED <<inputVars, builtChunks, sampleRequests, faults, checkpoint, fullRecipesFile,
                   fullRecipes, idx, cix, batchVars, upsertBuffer, embedVars, sliceAt, storeVars,
                   embedRequests, embedReturn, upsertReturn, otherVars>>

\* lines 469-478: the handler writes the checkpoint and the cache as they are
\* in memory, and the process exits with code 1
IngestCatch ==
    /\ ipc = "caught"
    /\ checkpointFile' = Some(checkpoint)
    /\ fullRecipesFile' = Some(fullRecipes)
    /\ ipc' = "failed"
    /\ UNCHANGED <<inputVars, builtChunks, sampleRequests, faults, checkpoint, fullRecipes, idx, cix,
                   batchVars, upsertBuffer, embedVars, sliceAt, storeVars, embedRequests,
                   embedReturn, upsertReturn, otherVars>>

\* lines 472-478: one of the handler's two writes throws, the first (nothing
\* is written) or the second (the checkpoint is written, the cache is not),
\* as the write that brought the handler in did; the inner catch logs it and
\* the process exits with code 1
IngestCatchThrows ==
    /\ ipc = "caught"
    /\ \E first \in BOOLEAN :
          checkpointFile' = IF first THEN checkpointFile ELSE Some(checkpoint)
    /\ ipc' = "failedUnsaved"
    /\ UNCHANGED <<inputVars, builtChunks, sampleRequests, faults, checkpoint, fullRecipesFile, fullRecipes,
                   idx, cix, batchVars, upsertBuffer, embedVars, sliceAt, storeVars,
                   embedRequests, embedReturn, upsertReturn, otherVars>>

\* The process is killed, or has ended, and the script is started again on
\* the same CSV file: what was in memory is gone, the files and the index stay
\* (lines 115-134 and 193-199).
IngestRestart ==
    /\ ipc # "idle" /\ restarts < MaxRestarts
    /\ restarts' = restarts + 1
    /\ checkpoint' = LoadCheckpoint(checkpointFile)
    /\ loaded' = LoadCheckpoint(checkpointFile)
    /\ fullRecipes' = LoadFullRecipes(fullRecipesFile)
    /\ idx' = 0 /\ cix' = 0
    /\ embedBatchTexts' = <<>> /\ embedBatchMeta' = <<>> /\ upsertBuffer' = <<>>
    /\ nonEmptyMeta' = <<>> /\ vectors' = <<>> /\ pushAt' = 0 /\ sliceAt' = 0
    /\ embedRequests' = <<>> /\ upsertRequests' = <<>> /\ builtChunks' = <<>>
    /\ sampleRequests' = <<>>
    /\ embedReturn' = "none" /\ upsertReturn' = "none"
    /\ ipc' = "sample"
    /\ UNCHANGED <<rows, faults, checkpointFile, fullRecipesFile, pineconeIndex, failedFiles, now,
                   otherVars>>

NextIngest ==
    \/ IngestSampleCheck
    \/ IngestSkipRow
    \/ IngestBeginRow
    \/ IngestPushChunk
    \/ IngestEndRow
    \/ IngestSaveCache
    \/ IngestLoopEnd
    \/ IngestEmbedSkip
    \/ IngestEmbedThrows
    \/ IngestEmbedResolves
    \/ IngestPushVector
    \/ IngestEmbedDone
    \/ IngestUpsertOk
    \/ IngestUpsertFails
    \/ IngestUpsertDone
    \/ IngestFinalUpsert
    \/ IngestFinalCheckpoint
    \/ IngestFinalSaveCache
    \/ IngestWriteThrows
    \/ IngestFailedFileThrows
    \/ IngestCatch
    \/ IngestCatchThrows
    \/ IngestRestart

SpecIngest == InitIngest /\ [][NextIngest]_vars

\* A file long enough for the loop to pass a checkpoint row other than row 0:
\* rows of one chunk, of blank text and of two chunks in turn.
LongFile == [i \in 1..LongRows |-> <<RowOne, RowBlank, RowBlank, RowTwo>>[((i - 1) % 4) + 1]]

\* The script starts on a given file with one of the given checkpoint files;
\* one call may fail and the process is not killed.
InitIngestOn(file, checkpoints) ==
    /\ ChunkIdle
    /\ AggIdle
    /\ MatchIdle
    /\ rows = file
    /\ checkpointFile \in checkpoints
    /\ fullRecipesFile = IF checkpointFile = None THEN None
                         ELSE Some(RecipesOf(rows, Min(Val(checkpointFile) + 1, Len(rows))))
    /\ checkpoint = LoadCheckpoint(checkpointFile)
    /\ loaded = checkpoint
    /\ fullRecipes = LoadFullRecipes(fullRecipesFile)
    /\ idx = 0 /\ cix = 0
    /\ embedBatchTexts = <<>> /\ embedBatchMeta = <<>> /\ upsertBuffer = <<>>
    /\ nonEmptyMeta = <<>> /\ vectors = <<>> /\ pushAt = 0 /\ sliceAt = 0
    /\ pineconeIndex = {} /\ failedFiles = {} /\ now = 0
    /\ embedRequests = <<>> /\ upsertRequests = <<>>
    /\ embedReturn = "none" /\ upsertReturn = "none" /\ builtChunks = <<>>
    /\ sampleRequests = <<>> /\ faults = MaxFaults - 1 /\ restarts = MaxRestarts
    /\ ipc = "sample"

\* The long file, with no checkpoint, with the checkpoint of row 0, or with
\* the one of a shorter file of 21 rows.
InitIngestLong == InitIngestOn(LongFile, {None, Some(0), Some(20)})

\* The first rows of the long file, enough for a batch of blank texts and for
\* a batch that meets a vector in the upsert buffer.
InitIngestShort == InitIngestOn(Take(LongFile, ShortRows), {None, Some(0)})

NextIngestLong ==
    \/ IngestSampleCheck
    \/ IngestSkipRow
    \/ IngestBeginRow
    \/ IngestPushChunk
    \/ IngestEndRow
    \/ IngestSaveCache
    \/ IngestLoopEnd
    \/ IngestEmbedSkip
    \/ IngestEmbedThrows
    \/ IngestEmbedResolves
    \/ IngestPushVector
    \/ IngestEmbedDone
    \/ IngestUpsertOk
    \/ IngestUpsertFails
    \/ IngestUpsertDone
    \/ IngestFinalUpsert
    \/ IngestFinalCheckpoint
    \/ IngestFinalSaveCache
    \/ IngestWriteThrows
    \/ IngestFailedFileThrows
    \/ IngestCatch
    \/ IngestCatchThrows

SpecIngestLong == InitIngestLong /\ [][NextIngestLong]_vars

\* lines 467 and 478: the process has exited
Terminated == ipc \in {"done", "failed", "failedUnsaved"}

\* The script is one sequential process: while it is not killed, every await
\* resolves or rejects and the next statement runs, until the process exits.
\* This is WF_vars(NextIngestLong) with ENABLED <<NextIngestLong>>_vars
\* written out: a step is possible exactly while the process has not exited.
IngestFairness == []<>Terminated \/ []<><<NextIngestLong>>_vars

SpecIngestShortFair == InitIngestShort /\ [][NextIngestLong]_vars /\ IngestFairness

(***************************************************************************)
(* Claims about runIngest                                                  *)
(***************************************************************************)
\* the ids of the vectors the index holds or a failed-upsert file keeps
DeliveredIds ==
    {it.id : it \in pineconeIndex}
    \cup UNION {{f.vectors[i].id : i \in 1..Len(f.vectors)} : f \in failedFiles}

\* the ids of the chunks runIngest builds for a row
ChunkIdsOf(row) == {ChunkId(ParentIdOf(row), c) : c \in 0..(Len(FinalChunks(row)) - 1)}

\* the indices of the rows this run processes, up to row c
RowsOfRunUpTo(c) == {r \in 0..(Len(rows) - 1) : loaded < r /\ r <= c}

\* C2: the persisted checkpoint is the last committed row: whenever the
\* checkpoint file holds lastProcessedRow = c, every chunk of every row of
\* this run with index <= c is in the vector index or in a failed-upsert file.
C2_CheckpointIsCommitted ==
    (ipc # "idle" /\ IsSome(checkpointFile)) =>
        \A r \in RowsOfRunUpTo(Val(checkpointFile)) :
            ChunkIdsOf(rows[r + 1]) \subseteq DeliveredIds

\* the run met no embedding failure and no upsert failure
NoFailure ==
    /\ \A n \in 1..Len(embedRequests) : ~EmbedFailed(embedRequests[n])
    /\ UpsertFailures = 0

\* the indices of the rows this run processes
RowsOfRun == RowsOfRunUpTo(Len(rows) - 1)

\* C13: every parent is represented in the index: at the end of a run with no
\* embedding or upsert failure the index holds, for every row the run
\* processed, a vector whose metadata parentId is that row's parentId.
C13_EveryParentIndexed ==
    (ipc = "done" /\ NoFailure) =>
        \A r \in RowsOfRun :
            \E it \in pineconeIndex : it.metadata.parentId = ParentIdOf(rows[r + 1])

\* the chunk records this run built for row r, in the order they were built
BuiltFor(r) == SelectSeq(builtChunks, LAMBDA b : b.row = r)

\* C14: the chunk records built for a row have the ids parentId#c0 ..
\* parentId#c(k-1) and the chunk indices 0..k-1 in order, and each carries
\* totalChunks = k, the number of chunks produced for the row (1 when the
\* chunker returns none).
C14_ChunkRecordsContiguous ==
    \A r \in RowsOfRun :
        r < idx =>
            LET recs == BuiltFor(r)
                k == Len(recs)
                produced == chunkText(getFullInstructions(rows[r + 1]), CHUNK_SIZE, CHUNK_OVERLAP)
            IN  /\ k = IF produced = <<>> THEN 1 ELSE Len(produced)
                /\ \A i \in 1..k :
                      /\ recs[i].id = ChunkId(ParentIdOf(rows[r + 1]), i - 1)
                      /\ recs[i].metadata.parentId = ParentIdOf(rows[r + 1])
                      /\ recs[i].metadata.chunkIndex = i - 1
                      /\ recs[i].metadata.totalChunks = k

\* a finished run that built two chunks for one row and the substituted
\* chunk for a row without instructions
C14_Witness ==
    /\ ipc = "done" /\ loaded = -1 /\ Len(rows) = 2
    /\ Len(BuiltFor(0)) = 2
    /\ Len(BuiltFor(1)) = 1 /\ getFullInstructions(rows[2]) = <<>>

\* two rows without Srno that carry the same title and raw ingredient text
SameDocument(a, b) ==
    /\ a.Srno = <<>> /\ b.Srno = <<>>
    /\ TitleOf(a) = TitleOf(b)
    /\ RawIngredientsOf(a) = RawIngredientsOf(b)

\* the entries a cache holds for the title and ingredients of a row
EntriesFor(entries, row) ==
    {i \in 1..Len(entries) :
        entries[i].title = TitleOf(row) /\ entries[i].ingredients = RawIngredientsOf(row)}

\* the vectors a failure-free ingestion of the row upserts
VectorsOf(row) ==
    {[id |-> ChunkId(ParentIdOf(row), c), values |-> Embedding(PageContent(row, c)),
      metadata |-> ChunkMetadata(row, c)] : c \in 0..(Len(FinalChunks(row)) - 1)}

\* C15: re-ingestion is idempotent: a row with the same title and raw
\* ingredient text and no Srno gets the same parentId and chunk ids each time
\* it is processed, and after the second time the cache holds one entry for
\* it and the index one vector per chunk id, those of a single ingestion.
C15_ReingestIdempotent ==
    \A r1, r2 \in RowsOfRun :
        (r1 < r2 /\ r2 < idx /\ SameDocument(rows[r1 + 1], rows[r2 + 1])) =>
            LET a == BuiltFor(r1)
                b == BuiltFor(r2)
                pid == a[1].metadata.parentId
            IN  /\ \A i \in 1..Min(Len(a), Len(b)) :
                      a[i].id = b[i].id /\ b[i].metadata.parentId = pid
                /\ Cardinality(EntriesFor(fullRecipes, rows[r2 + 1])) = 1
                /\ IsSome(fullRecipesFile) =>
                      Cardinality(EntriesFor(Val(fullRecipesFile), rows[r2 + 1])) <= 1
                /\ \A x, y \in pineconeIndex : x.id = y.id => x = y
                /\ rows[r1 + 1] = rows[r2 + 1] =>
                      /\ [i \in 1..Len(a) |-> a[i].metadata] = [i \in 1..Len(b) |-> b[i].metadata]
                      /\ {x \in pineconeIndex : x.metadata.parentId = pid}
                            \subseteq VectorsOf(rows[r2 + 1])

\* a finished run over a file that lists the same row twice, with its vector
\* in the index
C15_Witness ==
    /\ ipc = "done" /\ loaded = -1 /\ Len(rows) = 2
    /\ rows[1] = rows[2] /\ rows[1].Srno = <<>>
    /\ Len(BuiltFor(0)) = 1 /\ Len(BuiltFor(1)) = 1
    /\ VectorsOf(rows[1]) \subseteq pineconeIndex
    /\ Len(fullRecipes) = 1

\* C16: a resumed run does not reprocess completed rows: for the rows at or
\* below the checkpoint loaded at start the script builds no chunk, sends no
\* text to the embedding client, upserts no vector and adds nothing to the
\* cache; what it builds, sends, upserts and stores belongs to the rows above.
C16_NoReprocessing ==
    /\ \A n \in 1..Len(builtChunks) : builtChunks[n].row > loaded
    /\ \A n \in 1..Len(sampleRequests) : SampleRowAt - 1 > loaded
    /\ \A n \in 1..Len(embedRequests) : \A i \in 1..Len(embedRequests[n].texts) :
          \E k \in 1..Len(builtChunks) :
              embedRequests[n].texts[i] =
                  PageContent(rows[builtChunks[k].row + 1], builtChunks[k].metadata.chunkIndex)
    /\ \A n \in 1..Len(upsertRequests) : \A i \in 1..Len(upsertRequests[n].vectors) :
          \E k \in 1..Len(builtChunks) : upsertRequests[n].vectors[i].id = builtChunks[k].id
    /\ \A e \in 1..Len(fullRecipes) :
          \/ \E r \in RowsOfRun : r <= idx /\ fullRecipes[e] = FullRecipeObj(rows[r + 1])
          \/ IsSome(fullRecipesFile) /\ fullRecipes[e] \in Range(Val(fullRecipesFile))

\* the row the checkpoint file names, -1 without a file
Persisted == IF IsSome(checkpointFile) THEN Val(checkpointFile) ELSE -1

\* the rows the loop of this run has finished and the file does not cover
Unsaved == {r \in RowsOfRun : r < idx /\ r > Persisted}

\* C17: a crash loses at most N - 1 = 49 rows of progress: at every moment
\* of a run the rows the loop has finished processing beyond the persisted
\* checkpoint number at most 49.
C17_AtMostPeriodLost == ipc # "idle" => Cardinality(Unsaved) <= 50 - 1

\* the loop stands before row 50 with the checkpoint of row 0 on disk and
\* the rows 1..49 processed
C17_Witness ==
    /\ ipc = "row" /\ idx = 50 /\ Persisted = 0 /\ loaded = 0
    /\ Cardinality(Unsaved) = 50 - 1

\* C18: the checkpoint advances monotonically: whatever checkpoint the run
\* loaded and however many rows the source has, a value written to the
\* checkpoint file is never lower than the value the file held before, and so
\* never lower than the value loaded at start.
C18_CheckpointMonotone ==
    (ipc # "idle" /\ IsSome(checkpointFile)) => Val(checkpointFile) >= loaded

\* the rows the loop of this run has begun: their full recipe was put in
\* fullRecipes (line 258)
Begun == {r \in RowsOfRun : r <= idx}

\* the files hold the checkpoint and the cache of the memory, and the cache
\* file has an entry for every row the run has begun
PersistedNow ==
    /\ checkpointFile = Some(checkpoint)
    /\ fullRecipesFile = Some(fullRecipes)
    /\ \A r \in Begun :
          \E i \in 1..Len(Val(fullRecipesFile)) :
              Val(fullRecipesFile)[i].parentId = ParentIdOf(rows[r + 1])

BatchFailed(q) == q.reply = None \/ Len(Val(q.reply)) # Len(q.texts)

\* the number of texts sent to the embedding client by the requests of a run
RECURSIVE TextsSent(_)
TextsSent(reqs) ==
    IF reqs = <<>> THEN 0 ELSE Len(Head(reqs).texts) + TextsSent(Tail(reqs))

\* the step in which the embedding call of a batch fails
BatchFails ==
    /\ Len(embedRequests') = Len(embedRequests) + 1
    /\ BatchFailed(embedRequests'[Len(embedRequests')])

\* the failing call leaves the upsert buffer and the index as they were and
\* returns to its caller: to the row loop, which empties the batch, or to the
\* final flush of the upsert buffer
BatchDropped ==
    /\ upsertBuffer' = upsertBuffer
    /\ pineconeIndex' = pineconeIndex
    /\ IF embedReturn = "chunk"
       THEN ipc' = "chunk" /\ embedBatchTexts' = <<>> /\ embedBatchMeta' = <<>>
       ELSE ipc' = "finalUpsert"

\* C20: an embedding failure is batch-scoped: when the embedding call of a
\* batch throws or returns a result of another length, none of the batch's
\* chunks enters the upsert buffer and the vectors buffered before are kept,
\* no text is sent to the embedding client twice, and the run goes on through
\* the following batches to its final checkpoint.
C20_EmbedFailureBatchScoped ==
    /\ [][BatchFails => BatchDropped]_vars
    /\ [](TextsSent(embedRequests) <= Len(builtChunks))
    /\ ((\E n \in 1..Len(embedRequests) : BatchFailed(embedRequests[n])) ~> (ipc = "done"))

\* a batch has just failed in the row loop while the upsert buffer held a
\* vector of an earlier batch, after an earlier call that succeeded
C20_Witness ==
    /\ ipc = "chunk" /\ embedBatchTexts = <<>> /\ upsertBuffer # <<>>
    /\ Len(embedRequests) >= 2
    /\ BatchFailed(embedRequests[Len(embedRequests)])
    /\ ~EmbedFailed(embedRequests[Len(embedRequests) - 1])

\* the vectors the failed-upsert files hold
SideFileVectors == UNION {Range(f.vectors) : f \in failedFiles}

\* C21: an upsert failure is slice-scoped: the run goes on, and at its end
\* every vector whose upsert failed is retrievable from some failed-upsert
\* file, also when several slices failed in the run.
C21_FailedSlicesRetrievable ==
    ipc = "done" =>
        \A n \in 1..Len(upsertRequests) :
            ~upsertRequests[n].ok => Range(upsertRequests[n].vectors) \subseteq SideFileVectors

\* the vectors the index holds for a parent
StoredFor(pid) == {it \in pineconeIndex : it.metadata.parentId = pid}

\* C25: after ingestion runs, also when a row of a parentId is ingested again
\* with instructions that now give fewer chunks, all vectors stored for one
\* parentId carry the same totalChunks and their chunk indices are exactly
\* 0..totalChunks-1.  Stated for a run that went from the first row to the
\* end with no failure and no kill.
C25_NoStaleChunks ==
    (ipc = "done" /\ faults = 0 /\ restarts = 0 /\ loaded = 0 - 1) =>
        \A it \in pineconeIndex :
            LET stored == StoredFor(it.metadata.parentId)
            IN  {s.metadata.chunkIndex : s \in stored} = 0..(it.metadata.totalChunks - 1)

\* the parent ids the persisted cache file has an entry for
CachedParents ==
    IF IsSome(fullRecipesFile)
    THEN {Val(fullRecipesFile)[i].parentId : i \in 1..Len(Val(fullRecipesFile))}
    ELSE {}

\* C26: the two durable files are consistent wherever the process can be
\* killed: whenever the checkpoint file holds lastProcessedRow = c, the cache
\* file holds the parent document of every row of this run with index <= c.
C26_FilesConsistent ==
    (ipc # "idle" /\ IsSome(checkpointFile)) =>
        \A r \in RowsOfRunUpTo(Val(checkpointFile)) :
            ParentIdOf(rows[r + 1]) \in CachedParents

\* the chunks of row r with a non-blank composed text, in chunk order
TextChunksOf(r) ==
    SelectSeq([c \in 1..Len(FinalChunks(rows[r + 1])) |-> BatchMeta(rows[r + 1], c - 1)],
              LAMBDA b : PageContent(rows[r + 1], b.metadata.chunkIndex) # <<>>)

\* the chunks with a non-blank composed text of the rows from r on, in row order
RECURSIVE TextChunksFrom(_)
TextChunksFrom(r) ==
    IF r >= Len(rows) THEN <<>> ELSE TextChunksOf(r) \o TextChunksFrom(r + 1)

\* the vectors of the upsert calls of the run, in the order they were sent
RECURSIVE SentVectors(_)
SentVectors(reqs) ==
    IF reqs = <<>> THEN <<>> ELSE Head(reqs).vectors \o SentVectors(Tail(reqs))

\* the vectors sent are those of the chunks with text of the rows above the
\* loaded checkpoint, once each, in row order and then chunk order
UpsertedOnceInOrder ==
    LET sent == SentVectors(upsertRequests)
        due == TextChunksFrom(IF loaded < 0 THEN 0 ELSE loaded + 1)
    IN  /\ Len(sent) = Len(due)
        /\ \A k \in 1..Len(due) :
              sent[k].id = due[k].id /\ sent[k].metadata = due[k].metadata

\* C27 as stated: in a run with no embedding or upsert failure, when
\* runIngest completes the embedding batch and the upsert buffer are empty
\* and every chunk with text of every row above the loaded checkpoint has
\* been upserted exactly once, in row order and then chunk order.
C27_AllFlushedInOrder ==
    (ipc = "done" /\ NoFailure) =>
        /\ embedBatchTexts = <<>> /\ embedBatchMeta = <<>>
        /\ upsertBuffer = <<>>
        /\ UpsertedOnceInOrder

\* C27, amended: the same without the embedding batch, which still holds the
\* remainder that was flushed after the loop.
C27_UpsertedInOrder ==
    (ipc = "done" /\ NoFailure) =>
        /\ upsertBuffer = <<>>
        /\ UpsertedOnceInOrder

\* a run without failure has ended after a full batch and a remainder, with
\* two upsert calls
C27_Witness ==
    /\ ipc = "done" /\ NoFailure
    /\ Len(embedRequests) >= 2 /\ Len(upsertRequests) >= 2
    /\ embedBatchTexts # <<>>

\* the composed text of a chunk built in this run
TextOfBuilt(b) == PageContent(rows[b.row + 1], b.metadata.chunkIndex)

\* an embedding call whose result was used: it resolved to as many vectors
\* as texts were sent
Used(q) == IsSome(q.reply) /\ Len(Val(q.reply)) = Len(q.texts)

\* vector v is the one a used embedding call returned at the position of the
\* composed text of the chunk whose id and metadata v carries
FromItsChunk(v) ==
    \E n \in 1..Len(embedRequests) :
        LET q == embedRequests[n]
        IN  /\ Used(q)
            /\ \E i \in 1..Len(q.texts) :
                  /\ Val(q.reply)[i] = v.values
                  /\ \E k \in 1..Len(builtChunks) :
                        /\ builtChunks[k].id = v.id
                        /\ builtChunks[k].metadata = v.metadata
                        /\ TextOfBuilt(builtChunks[k]) = q.texts[i]

\* C28: every vector put in the upsert buffer or sent to the index has a
\* non-empty values array and carries the id and metadata of the chunk whose
\* composed text stood at its position in the embedding request that
\* produced it, blank texts filtered or not; a result whose length differs
\* from the request gives no vector.
C28_VectorsAligned ==
    /\ \A n \in 1..Len(upsertRequests) :
          \A i \in 1..Len(upsertRequests[n].vectors) :
              LET v == upsertRequests[n].vectors[i]
              IN  v.values # <<>> /\ FromItsChunk(v)
    /\ \A i \in 1..Len(upsertBuffer) :
          upsertBuffer[i].values # <<>> /\ FromItsChunk(upsertBuffer[i])

\* a batch of a blank text followed by a text was embedded as one text, and
\* the vector was sent under the id of the second chunk
C28_Witness ==
    /\ Len(builtChunks) = BATCH_SIZE
    /\ TextOfBuilt(builtChunks[1]) = <<>> /\ TextOfBuilt(builtChunks[2]) # <<>>
    /\ Len(embedRequests) = 1 /\ Len(embedRequests[1].texts) = 1
    /\ \E n \in 1..Len(upsertRequests) :
          \E i \in 1..Len(upsertRequests[n].vectors) :
              upsertRequests[n].vectors[i].id = builtChunks[2].id

\* the metadata record carries the raw text of chunk c of the row
CarriesText(metadata, row) ==
    /\ "text" \in DOMAIN metadata
    /\ metadata.text = FinalChunks(row)[metadata.chunkIndex + 1]

\* C29: every chunk metadata record built by ingestion, and so every vector
\* upserted, carries the raw text of its chunk.
C29_MetadataCarriesText ==
    /\ \A k \in 1..Len(builtChunks) :
          CarriesText(builtChunks[k].metadata, rows[builtChunks[k].row + 1])
    /\ \A n \in 1..Len(upsertRequests) :
          \A i \in 1..Len(upsertRequests[n].vectors) :
              "text" \in DOMAIN upsertRequests[n].vectors[i].metadata

\* the batches the chunks built so far fall into, BATCH_SIZE chunks each, the
\* last one shorter when the chunks do not fill it
BatchCount == (Len(builtChunks) + BATCH_SIZE - 1) \div BATCH_SIZE

\* the non-blank composed texts of the j-th batch
TextsOfBatch(j) ==
    LET from == (j - 1) * BATCH_SIZE + 1
        to == Min(j * BATCH_SIZE, Len(builtChunks))
    IN  SelectSeq([k \in 1..(to - from + 1) |-> TextOfBuilt(builtChunks[from + k - 1])],
                  LAMBDA t : Trim(t) # <<>>)

\* the texts of the batches that hold a non-blank text, batch by batch
DueBatches == SelectSeq([j \in 1..BatchCount |-> TextsOfBatch(j)], LAMBDA ts : ts # <<>>)

\* the size bounds of the batch, the buffer and the calls
BatchingBounds ==
    /\ Len(embedBatchTexts) <= BATCH_SIZE
    /\ \A n \in 1..Len(embedRequests) : Len(embedRequests[n].texts) \in 1..BATCH_SIZE
    /\ Len(upsertBuffer) <= UPsert_BATCH
    /\ \A n \in 1..Len(upsertRequests) :
          /\ Len(upsertRequests[n].vectors) \in 1..UPsert_BATCH
          /\ upsertRequests[n].namespace = PINECONE_NAMESPACE

====
